---- MODULE Spec2Model ----
(***************************************************************************)
(* A model of log4go: the Logger (level-filtered fan-out to named          *)
(* LogWriters), the rotating file writers (FileLogWriter, XMLLogWriter),   *)
(* the channel-based FormatLogWriter and FormatLogRecord with its          *)
(* second-keyed cache.  Each part has its own specification; the parts     *)
(* share the module's variables and leave the others' unchanged.           *)
(***************************************************************************)
EXTENDS Integers, Sequences, FiniteSets, TLC

(***************************************************************************)
(* Program constants                                                       *)
(***************************************************************************)
FINEST == 0
FINE == 1
DEBUG == 2
TRACE == 3
INFO == 4
WARNING == 5
ERROR == 6
CRITICAL == 7

levelStrings == <<"FNST", "FINE", "DEBG", "TRAC", "INFO", "WARN", "EROR", "CRIT">>

(***************************************************************************)
(* Bounds of the model                                                     *)
(***************************************************************************)
MaxTime == 1

Names == {"stdout", "file"}
Sinks == {"w1", "w2"}
Nil == "nil"
Thresholds == {FINEST, WARNING}
LogLevels == {FINEST, INFO, CRITICAL}
Sources == {"src"}
Messages == {"msg"}
Texts == {"msg", "100%"}

VARIABLES
    \* Logger (log4go.go)
    filterLevels,       \* name -> threshold
    filterLogWriters,   \* name -> LogWriter
    writerState,        \* each LogWriter: "good", "failing", "lastWrite" or "closed"
    lastCall,           \* the last Logger operation and the LogWrite calls it made
    now,                \* the clock newLogRecord reads
    panicked,           \* "none", or the run-time panic that ended the process
    \* FileLogWriter (filelog.go) and XMLLogWriter
    flw,                \* the writer's fields
    fs,                 \* the files: 0 is `filename`, n is `filename.n`; each a sequence of lines
    today,              \* the local date, in days
    fileOp,             \* the last operation on the writer and what it did
    life,               \* what happened since the writer was made and since its last open
    \* FormatLogWriter (pattlog.go): a channel of records and the goroutine ranging over it
    chan,               \* the records buffered in the channel
    chanClosed,         \* close(w) was called
    chanOut,            \* what run has written to `out`
    runPc,              \* the goroutine `run`: at "range", at "write" with a record, or "done"
    senders,            \* the goroutines blocked in `w <- rec`, with their records, in order
    nsent,              \* the LogWrite calls started
    chanOp,             \* the last LogWrite or Close on the writer and what it did
    \* FormatLogRecord (pattlog.go)
    \* goroutines that run a call step by step
    procs,              \* each goroutine: where it is in its call
    lock,               \* the holder of the writer's sync.Mutex, or "free"
    regs,               \* for each name, the pairs of threshold and writer it was registered with
    formatBuild,        \* which of the three definitions of FormatLogRecord is built
    formatCache,        \* the package's cache of the last second's strings
    fmtCall,            \* the last FormatLogRecord call and its result
    \* SocketLogWriter (socklog.go)
    slw,                \* the writer: which definition is built, its protocol, its `sock`
    conn,               \* the connection net.Dial made: open or closed, and the bytes sent over it
    sockOp              \* the last operation on the writer and what it returned

loggerVars == <<filterLevels, filterLogWriters, writerState, lastCall, now>>
fileVars == <<flw, fs, today, fileOp, life>>
chanVars == <<chan, chanClosed, chanOut, runPc, senders, nsent, chanOp>>
fmtVars == <<formatBuild, formatCache, fmtCall>>
sockVars == <<slw, conn, sockOp>>
stepVars == <<procs, lock, regs>>
vars == <<loggerVars, panicked, fileVars, chanVars, fmtVars, sockVars, stepVars>>

EmptyMap == [x \in {} |-> 0]
NoCall == [op |-> "none"]

\* All the orders in which a range over the map may visit the keys of S.
RECURSIVE Orders(_)
Orders(S) ==
    IF S = {} THEN {<<>>}
    ELSE UNION {{<<x>> \o o : o \in Orders(S \ {x})} : x \in S}

(***************************************************************************)
(* LogRecord                                                               *)
(***************************************************************************)
newLogRecord(lv, src, msg) ==
    [Level |-> lv, Created |-> now, Source |-> src, Message |-> msg]

(***************************************************************************)
(* LogWriter, as the Logger sees one.  A writer is "good" (writes          *)
(* succeed), "failing" (Good() holds, writes return an error), "lastWrite" *)
(* (Good() holds, the next LogWrite rotates and the reopen fails: the      *)
(* writer ends unhealthy) or "closed" (Good() is false).                   *)
(***************************************************************************)
WriterStates == {"good", "failing", "lastWrite", "closed"}

Good(st) == st # "closed"

\* The result LogWrite returns in each state, and the state it leaves.
LogWriteResult(st) ==
    CASE st = "good" -> "ok"
      [] st = "failing" -> "err"
      [] OTHER -> "notOpened"
LogWriteState(st) == IF st = "lastWrite" THEN "closed" ELSE st

(***************************************************************************)
(* Logger                                                                  *)
(***************************************************************************)
\* The filters a record of this level is sent to: `level >= filterLevels[filt]`.
Admitted_gt(level, lvls) == {filt \in DOMAIN lvls : level > lvls[filt]}
Admitted(level, lvls) == {filt \in DOMAIN lvls : level >= lvls[filt]}

\* One `lw.LogWrite(rec)` of a dispatch loop, for filter `filt`.
WriteCall_named(filt, lw, rec, st) ==
    [name |-> filt, writer |-> lw, rec |-> [rec EXCEPT !.Source = filt],
     result |-> LogWriteResult(st[lw])]
WriteCall(filt, lw, rec, st) ==
    [name |-> filt, writer |-> lw, rec |-> rec, result |-> LogWriteResult(st[lw])]

\* Logger.Log's dispatch loop: `if lw.Good() { lw.LogWrite(rec) }`.
RECURSIVE DispatchGood_stop(_, _, _, _, _)
DispatchGood_stop(order, writers, rec, st, calls) ==
    IF order = <<>> \/ (calls # <<>> /\ calls[Len(calls)].result # "ok")
    THEN [st |-> st, calls |-> calls]
    ELSE LET filt == Head(order)
             lw == writers[filt]
         IN  IF Good(st[lw])
             THEN DispatchGood_stop(Tail(order), writers, rec,
                      [st EXCEPT ![lw] = LogWriteState(st[lw])],
                      Append(calls, WriteCall(filt, lw, rec, st)))
             ELSE DispatchGood_stop(Tail(order), writers, rec, st, calls)
RECURSIVE DispatchGood(_, _, _, _, _)
DispatchGood(order, writers, rec, st, calls) ==
    IF order = <<>> THEN [st |-> st, calls |-> calls]
    ELSE LET filt == Head(order)
             lw == writers[filt]
         IN  IF Good(st[lw])
             THEN DispatchGood(Tail(order), writers, rec,
                      [st EXCEPT ![lw] = LogWriteState(st[lw])],
                      Append(calls, WriteCall(filt, lw, rec, st)))
             ELSE DispatchGood(Tail(order), writers, rec, st, calls)

\* intLogf's and intLogc's dispatch loop: `log.filterLogWriters[filt].LogWrite(rec)`.
RECURSIVE DispatchAll(_, _, _, _, _)
DispatchAll(order, writers, rec, st, calls) ==
    IF order = <<>> THEN [st |-> st, calls |-> calls]
    ELSE LET filt == Head(order)
             lw == writers[filt]
         IN  DispatchAll(Tail(order), writers, rec,
                 [st EXCEPT ![lw] = LogWriteState(st[lw])],
                 Append(calls, WriteCall(filt, lw, rec, st)))

\* No writer made yet; the fields are those `new` leaves zero.
NoWriter ==
    [kind |-> "none", file |-> "nil", rotate |-> FALSE, maxlines |-> 0, curlines |-> 0,
     maxsize |-> 0, cursize |-> 0, daily |-> FALSE, opendate |-> 0]

\* The file writer's variables where no file writer is made.
FileIdle ==
    /\ flw = NoWriter
    /\ fs = [old |-> {}, cur |-> EmptyMap]
    /\ today = 0
    /\ fileOp = NoCall
    /\ life = [calls |-> 0, faults |-> 0]

\* The channel writer's variables where none is made.
ChanIdle ==
    /\ chan = <<>>
    /\ chanClosed = FALSE
    /\ chanOut = <<>>
    /\ runPc = [pc |-> "none"]
    /\ senders = <<>>
    /\ nsent = 0
    /\ chanOp = NoCall

\* The format cache where FormatLogRecord is never called.
FormatIdle ==
    /\ formatBuild = "none"
    /\ formatCache = NoCall
    /\ fmtCall = NoCall

\* The socket writer's variables where none is made.
SockIdle ==
    /\ slw = [build |-> "none"]
    /\ conn = NoCall
    /\ sockOp = NoCall

\* No goroutine is in a call.
StepIdle ==
    /\ procs = EmptyMap
    /\ lock = "free"
    /\ regs = EmptyMap

\* The Logger's variables where no Logger is made.
LoggerIdle ==
    /\ filterLevels = EmptyMap
    /\ filterLogWriters = EmptyMap
    /\ writerState = EmptyMap
    /\ lastCall = NoCall
    /\ now = 0

LoggerInit ==
    /\ filterLevels = EmptyMap
    /\ filterLogWriters = EmptyMap
    /\ writerState = [s \in Sinks |-> "good"]
    /\ lastCall = NoCall
    /\ now = 0

\* `log.filterLevels[name] = level` and `log.filterLogWriters[name] = writer`
StoreLevel_none(levels, name, level) == levels
StoreLevel(levels, name, level) ==
    [filt \in DOMAIN levels \cup {name} |-> IF filt = name THEN level ELSE levels[filt]]
StoreWriter_none(writers, name, writer) == writers
StoreWriter(writers, name, writer) ==
    [filt \in DOMAIN writers \cup {name} |-> IF filt = name THEN writer ELSE writers[filt]]

\* The names registered, kept in regs where a Logger's life is followed.
Registered(names, name) == [filt \in DOMAIN names |-> filt = name \/ names[filt]]

\* `writer == nil || !writer.Good()`; writer = Nil is the nil LogWriter.
Refused_nil(writer, st) == writer = Nil
Refused(writer, st) == writer = Nil \/ ~Good(st[writer])

\* The *Logger a method is called on.
Self == "log"

\* What AddFilter returns: `return nil` where the writer is refused, `return
\* log` after the two stores.
AddFilterResult(writer, st) == IF Refused(writer, st) THEN Nil ELSE Self

\* AddFilter(name, level, writer)
AddFilter(name, level, writer) ==
    /\ panicked = "none"
    /\ IF Refused(writer, writerState)
       THEN UNCHANGED <<filterLevels, filterLogWriters, regs>>
       ELSE /\ filterLevels' = StoreLevel(filterLevels, name, level)
            /\ filterLogWriters' = StoreWriter(filterLogWriters, name, writer)
            /\ regs' = Registered(regs, name)
    /\ lastCall' = [op |-> "AddFilter", name |-> name, level |-> level, writer |-> writer,
                     ret |-> AddFilterResult(writer, writerState)]
    /\ UNCHANGED <<writerState, now, panicked, fileVars, chanVars, fmtVars, sockVars, procs, lock>>

\* The record kept of one dispatching call: the LogWrite calls it made, the
\* records it built, how often it ran a closure argument, the error it returned.
Call(op, level, source, message, built, calls, closure, ret) ==
    [op |-> op, level |-> level, source |-> source, message |-> message,
     built |-> built, calls |-> calls, closure |-> closure, ret |-> ret]

\* ConsoleLogWriter.LogWrite prints `levelStrings[rec.Level]`: an index
\* outside the table is a run-time panic.
Console == "console"
Indexable(level) == level \in 0..(Len(levelStrings) - 1)
RenderFails(lw, rec) == lw = Console /\ ~Indexable(rec.Level)

\* The filters of `order` the loop reaches: all of them, or those up to the
\* first one whose writer panics.
Reached(order, writers, rec) ==
    LET bad == {i \in 1..Len(order) : RenderFails(writers[order[i]], rec)}
    IN  IF bad = {} THEN order
        ELSE SubSeq(order, 1, CHOOSE i \in bad : \A j \in bad : i <= j)

\* Logger.Log(level, source, message)
Log(level, source, message) ==
    /\ panicked = "none"
    /\ LET logto == Admitted(level, filterLevels)
       IN  IF logto # {}
           THEN \E order \in Orders(logto) :
                  LET rec == newLogRecord(level, source, message)
                      reached == Reached(order, filterLogWriters, rec)
                      d == DispatchGood(reached, filterLogWriters, rec, writerState, <<>>)
                  IN  /\ writerState' = d.st
                      /\ lastCall' = Call("Log", level, source, message, 1, d.calls, 0, "none")
                      /\ panicked' = IF reached = order THEN panicked
                                     ELSE "index out of range"
           ELSE /\ lastCall' = Call("Log", level, source, message, 0, <<>>, 0, "none")
                /\ UNCHANGED <<writerState, panicked>>
    /\ UNCHANGED <<filterLevels, filterLogWriters, now, fileVars, chanVars, fmtVars, sockVars, stepVars>>

\* intLogf(level, format, args): `message` is what Sprintf renders from them,
\* the source is the caller's function and line.  `closure` and `ret` are
\* the calling method's: the closure runs it made, the error it returns.
intLogf(op, level, message, closure, ret) ==
    LET logto == Admitted(level, filterLevels)
    IN  IF logto # {}
        THEN \E order \in Orders(logto), source \in Sources :
               LET rec == newLogRecord(level, source, message)
                   d == DispatchAll(order, filterLogWriters, rec, writerState, <<>>)
               IN  /\ writerState' = d.st
                   /\ lastCall' = Call(op, level, source, message, 1, d.calls, closure, ret)
        ELSE /\ lastCall' = Call(op, level, "", message, 0, <<>>, closure, ret)
             /\ UNCHANGED writerState

\* intLogc(level, closure): the closure runs only when a filter admits the level.
intLogc_eager(op, level, message) ==
    LET logto == Admitted(level, filterLevels)
    IN  IF logto # {}
        THEN \E order \in Orders(logto), source \in Sources :
               LET rec == newLogRecord(level, source, message)
                   d == DispatchAll(order, filterLogWriters, rec, writerState, <<>>)
               IN  /\ writerState' = d.st
                   /\ lastCall' = Call(op, level, source, message, 1, d.calls, 1, "none")
        ELSE /\ lastCall' = Call(op, level, "", message, 0, <<>>, 1, "none")
             /\ UNCHANGED writerState
intLogc(op, level, message) ==
    LET logto == Admitted(level, filterLevels)
    IN  IF logto # {}
        THEN \E order \in Orders(logto), source \in Sources :
               LET rec == newLogRecord(level, source, message)
                   d == DispatchAll(order, filterLogWriters, rec, writerState, <<>>)
               IN  /\ writerState' = d.st
                   /\ lastCall' = Call(op, level, source, message, 1, d.calls, 1, "none")
        ELSE /\ lastCall' = Call(op, level, "", message, 0, <<>>, 0, "none")
             /\ UNCHANGED writerState

Logf(level, message) ==
    /\ panicked = "none"
    /\ intLogf("Logf", level, message, 0, "none")
    /\ UNCHANGED <<filterLevels, filterLogWriters, now, panicked, fileVars, chanVars, fmtVars, sockVars, stepVars>>

Logc(level, message) ==
    /\ panicked = "none"
    /\ intLogc("Logc", level, message)
    /\ UNCHANGED <<filterLevels, filterLogWriters, now, panicked, fileVars, chanVars, fmtVars, sockVars, stepVars>>

\* The three shapes of a leveled method's arguments: a format string with
\* arguments, a func() string, or values joined as Sprint joins them.
ArgKinds == {"format", "closure", "values"}

\* Finest, Fine, Debug, Trace, Info
\* fmt.Sprintf(format) of a text that is made the format string: a % in it
\* that starts no verb is not printed as it stands.
AsFormat(text) == IF text = "100%" THEN "100%!(NOVERB)" ELSE text

\* What intLogf renders from the arguments of a leveled method: of values,
\* `fmt.Sprint(arg0) + strings.Repeat(" %v", len(args))` is the format.
LeveledMessage(kind, text) == IF kind = "values" THEN AsFormat(text) ELSE text

Leveled(op, lvl, kind, message) ==
    /\ panicked = "none"
    /\ IF kind = "closure"
       THEN intLogc(op, lvl, message)
       ELSE intLogf(op, lvl, LeveledMessage(kind, message), 0, "none")
    /\ UNCHANGED <<filterLevels, filterLogWriters, now, panicked, fileVars, chanVars, fmtVars, sockVars, stepVars>>

\* Warn, Error, Critical: a closure is run first, `str := first()`, and its
\* result logged with intLogf; the rendered text is returned as an error.
LeveledErr(op, lvl, kind, message) ==
    /\ panicked = "none"
    /\ intLogf(op, lvl, LeveledMessage(kind, message),
               IF kind = "closure" THEN 1 ELSE 0, message)
    /\ UNCHANGED <<filterLevels, filterLogWriters, now, panicked, fileVars, chanVars, fmtVars, sockVars, stepVars>>

Finest(kind, message) == Leveled("Finest", FINEST, kind, message)
Fine(kind, message) == Leveled("Fine", FINE, kind, message)
Debug(kind, message) == Leveled("Debug", DEBUG, kind, message)
Trace(kind, message) == Leveled("Trace", TRACE, kind, message)
Info(kind, message) == Leveled("Info", INFO, kind, message)
Warn(kind, message) == LeveledErr("Warn", WARNING, kind, message)
Error(kind, message) == LeveledErr("Error", ERROR, kind, message)
Critical(kind, message) == LeveledErr("Critical", CRITICAL, kind, message)

\* What happens to a writer outside the Logger: its caller closes it or
\* Rotate() reopens it, its file starts or stops failing.
WriterEvent(s, st) ==
    /\ panicked = "none"
    /\ writerState[s] # st
    /\ writerState' = [writerState EXCEPT ![s] = st]
    /\ lastCall' = NoCall
    /\ UNCHANGED <<filterLevels, filterLogWriters, now, panicked, fileVars, chanVars, fmtVars, sockVars, stepVars>>

Tick ==
    /\ panicked = "none"
    /\ now < MaxTime
    /\ now' = now + 1
    /\ lastCall' = NoCall
    /\ UNCHANGED <<filterLevels, filterLogWriters, writerState, panicked, fileVars, chanVars, fmtVars, sockVars, stepVars>>

LoggerNext ==
    \/ \E name \in Names, level \in Thresholds, writer \in Sinks \cup {Nil} :
           AddFilter(name, level, writer)
    \/ \E level \in LogLevels, source \in Sources, message \in Messages :
           Log(level, source, message)
    \/ \E level \in LogLevels, message \in Messages : Logf(level, message)
    \/ \E level \in LogLevels, message \in Messages : Logc(level, message)
    \/ \E kind \in ArgKinds, message \in Texts : Finest(kind, message)
    \/ \E kind \in ArgKinds, message \in Texts : Fine(kind, message)
    \/ \E kind \in ArgKinds, message \in Texts : Debug(kind, message)
    \/ \E kind \in ArgKinds, message \in Texts : Trace(kind, message)
    \/ \E kind \in ArgKinds, message \in Texts : Info(kind, message)
    \/ \E kind \in ArgKinds, message \in Texts : Warn(kind, message)
    \/ \E kind \in ArgKinds, message \in Texts : Error(kind, message)
    \/ \E kind \in ArgKinds, message \in Texts : Critical(kind, message)
    \/ \E s \in Sinks, st \in WriterStates : WriterEvent(s, st)
    \/ Tick

LoggerStart == LoggerInit /\ FileIdle /\ ChanIdle /\ FormatIdle /\ panicked = "none" /\ StepIdle /\ SockIdle

SpecLogger == LoggerStart /\ [][LoggerNext]_vars

(***************************************************************************)
(* Properties of the Logger                                                *)
(***************************************************************************)
DispatchOps == {"Log", "Logf", "Logc", "Finest", "Fine", "Debug", "Trace",
                "Info", "Warn", "Error", "Critical"}

\* How many LogWrite calls a dispatching call made for filter n.
CallsTo(call, n) == Cardinality({i \in 1..Len(call.calls) : call.calls[i].name = n})

\* Every LogWrite of the call went to the filter's own writer with a record
\* of the call's level, source and message.
CallRecordsMatch(call, writers) ==
    \A i \in 1..Len(call.calls) :
        /\ call.calls[i].writer = writers[call.calls[i].name]
        /\ call.calls[i].rec.Level = call.level
        /\ call.calls[i].rec.Source = call.source
        /\ call.calls[i].rec.Message = call.message

\* C1 as stated: a Log call invokes LogWrite exactly once for every
\* registered filter whose threshold is at most the level, and for no other,
\* with a record of that level, source and message.
C1_LogReachesIffAdmitted ==
    [][lastCall'.op = "Log" =>
         /\ \A n \in DOMAIN filterLevels :
                CallsTo(lastCall', n) = IF lastCall'.level >= filterLevels[n] THEN 1 ELSE 0
         /\ CallRecordsMatch(lastCall', filterLogWriters)]_vars

\* C1 amended: a Log call invokes LogWrite for a registered filter iff the
\* level is at least its threshold and its writer's Good() holds when the
\* dispatch loop reaches it; then exactly once, with a record of the call's
\* level, source and message.  (A writer registered under two admitted
\* names may turn unhealthy in the first of its two writes.)
C1_LogReachesIffAdmittedAndGood ==
    [][lastCall'.op = "Log" =>
         /\ \A n \in DOMAIN filterLevels :
              LET lw == filterLogWriters[n]
                  adm == lastCall'.level >= filterLevels[n]
                  shared == \E m \in DOMAIN filterLevels \ {n} :
                               /\ filterLogWriters[m] = lw
                               /\ lastCall'.level >= filterLevels[m]
              IN  /\ CallsTo(lastCall', n) <= 1
                  /\ CallsTo(lastCall', n) = 1 => adm /\ Good(writerState[lw])
                  /\ adm /\ Good(writerState[lw]) /\ ~shared => CallsTo(lastCall', n) = 1
                  /\ adm /\ Good(writerState'[lw]) => CallsTo(lastCall', n) = 1
         /\ CallRecordsMatch(lastCall', filterLogWriters)]_vars

\* A Log call wrote to one filter and left out a second whose threshold
\* admitted the level and whose writer was closed.
C1_Witness ==
    /\ lastCall.op = "Log"
    /\ Len(lastCall.calls) = 1
    /\ lastCall.calls[1].rec.Level = lastCall.level
    /\ \E n \in DOMAIN filterLevels :
          /\ lastCall.level >= filterLevels[n]
          /\ ~Good(writerState[filterLogWriters[n]])
          /\ CallsTo(lastCall, n) = 0

\* C2 as stated: on every dispatch path (Log, Logf, Logc and the leveled
\* methods) a filter whose writer's Good() is false is skipped: the call
\* makes no LogWrite for it.
C2_UnhealthySkippedOnEveryPath ==
    [][lastCall'.op \in DispatchOps =>
         \A n \in DOMAIN filterLevels :
             ~Good(writerState[filterLogWriters[n]]) => CallsTo(lastCall', n) = 0]_vars

(***************************************************************************)
(* FileLogWriter and XMLLogWriter.  The two share their fields (the XML    *)
(* writer's maxrecords and maxrecords_currecords are maxlines and curlines *)
(* here) and their rotation; `kind` tells them apart.  The handle `file`   *)
(* is "nil", "open", or "stale": closed by intRotate and still held.       *)
(* A write of a record may fail; the writes of the XML tags and the        *)
(* renames do not.                                                         *)
(***************************************************************************)
BackupLimit == 999

MaxCalls == 3
MaxLines == 2
MaxFaults == 1
MaxDate == 2
DaysPerMonth == 2

RecSize == 2
SizeLimits == {0, RecSize + 1}
Old == <<"old">>
OpenTag == <<"<log>">>
CloseTag == <<"</log>">>

\* time.LocalTime().Day: the day of the month.
Day(date) == (date % DaysPerMonth) + 1

\* Good(): `return flw.file != nil`
FileGood(f) == f.file # "nil"

\* The rotate triggers LogWrite checks.
RotateTriggered_gt(f, day) ==
    \/ f.maxlines > 0 /\ f.curlines > f.maxlines
    \/ f.maxsize > 0 /\ f.cursize > f.maxsize
    \/ f.daily /\ day # f.opendate
RotateTriggered(f, day) ==
    \/ f.maxlines > 0 /\ f.curlines >= f.maxlines
    \/ f.maxsize > 0 /\ f.cursize >= f.maxsize
    \/ f.daily /\ day # f.opendate

\* The files are [old, cur]: `old` the numbers of the backups that were there
\* before the program ran, each holding <<Old>>, and `cur` the content of
\* every file the program has written or moved, and of `filename` (number 0).
Exists(files, n) == n \in files.old \/ n \in DOMAIN files.cur
Content(files, n) == IF n \in DOMAIN files.cur THEN files.cur[n] ELSE <<Old>>

\* file.Write on the open `filename`
AppendTo(files, line) == [files EXCEPT !.cur[0] = Append(@, line)]

\* os.Rename(filename, filename.to): a file already named so is replaced.
Rename(files, to) ==
    [old |-> files.old \ {to},
     cur |-> [n \in (DOMAIN files.cur \ {0}) \cup {to} |->
                 IF n = to THEN files.cur[0] ELSE files.cur[n]]]

\* os.Open(filename, O_WRONLY|O_APPEND|O_CREAT): the file is made if it is not there.
OpenAppend_trunc(files) ==
    [files EXCEPT !.cur = [n \in DOMAIN files.cur \cup {0} |->
                             IF n = 0 THEN <<>> ELSE files.cur[n]]]
OpenAppend(files) ==
    IF 0 \in DOMAIN files.cur THEN files
    ELSE [files EXCEPT !.cur = [n \in DOMAIN files.cur \cup {0} |->
                                   IF n = 0 THEN <<>> ELSE files.cur[n]]]

\* The first num in lo..hi with no file `filename.num`, or 0 if all exist.
\* (The range is halved rather than walked: the walk is 998 calls deep.)
RECURSIVE FirstFree(_, _, _)
FirstFree(files, lo, hi) ==
    IF lo > hi THEN 0
    ELSE IF lo = hi THEN (IF ~Exists(files, lo) THEN lo ELSE 0)
    ELSE LET mid == (lo + hi) \div 2
             low == FirstFree(files, lo, mid)
         IN  IF low # 0 THEN low ELSE FirstFree(files, mid + 1, hi)

\* `for ; err == nil && num < 999; num++ { fname = ...num; _, err = os.Lstat(fname) }`
\* probes num = 1, 2, ... while num < 999 and stops at the first name with no
\* file.  `found` is err != nil; fname is the last name probed.
ProbeLoop_first(files) == [fname |-> 1, found |-> TRUE]
ProbeLoop(files) ==
    LET free == FirstFree(files, 1, BackupLimit - 1)
    IN  IF free # 0 THEN [fname |-> free, found |-> TRUE]
        ELSE [fname |-> BackupLimit - 1, found |-> FALSE]

\* intRotate's `if flw.rotate { ... }`: the file moves to the number found.
Archive(f, files) ==
    IF f.rotate /\ Exists(files, 0)
    THEN LET pr == ProbeLoop(files)
         IN  IF pr.found
             THEN [files |-> Rename(files, pr.fname), renamed |-> pr.fname]
             ELSE [files |-> files, renamed |-> 0]
    ELSE [files |-> files, renamed |-> 0]

\* FileLogWriter.intRotate's `if flw.file != nil { flw.file.Close() }`:
\* the handle is closed and kept.
CloseHandle(f) == IF f.file = "nil" THEN f ELSE [f EXCEPT !.file = "stale"]

\* XMLLogWriter.Close: the closing tag is written to an open file, the file
\* closed and the handle dropped.
XMLClose_noTag(f, files) ==
    [f |-> [f EXCEPT !.file = "nil"], files |-> files]
XMLClose(f, files) ==
    [f |-> [f EXCEPT !.file = "nil"],
     files |-> IF f.file = "open" THEN AppendTo(files, CloseTag) ELSE files]

\* intRotate: close, archive, reopen, reset the counters.
intRotate(f, files, openOk, day) ==
    LET closed == IF f.kind = "xml" THEN XMLClose(f, files)
                  ELSE [f |-> CloseHandle(f), files |-> files]
        arch == Archive(closed.f, closed.files)
    IN  IF ~openOk
        THEN [f |-> closed.f, files |-> arch.files, renamed |-> arch.renamed,
              opened |-> FALSE]
        ELSE [f |-> [closed.f EXCEPT !.file = "open", !.opendate = day,
                                     !.curlines = 0, !.cursize = 0],
              files |-> IF f.kind = "xml"
                        THEN AppendTo(OpenAppend(arch.files), OpenTag)
                        ELSE OpenAppend(arch.files),
              renamed |-> arch.renamed, opened |-> TRUE]

\* The line one LogWrite adds; every record is rendered to RecSize bytes.
Line(kind) == <<IF kind = "xml" THEN "record" ELSE "line">>

\* The records are told apart by their number in the order they are
\* written: what the files hold of the k-th is Record(kind, k).
IsRecord(e) == Len(e) > Len(Old)
Ordinal(files) ==
    1 + Cardinality({p \in UNION {{<<n, i>> : i \in 1..Len(files.cur[n])} : n \in DOMAIN files.cur} :
                        IsRecord(files.cur[p[1]][p[2]])})
Record(kind, k) == Line(kind) \o <<k>>

\* The files there before the program runs: none, or `filename` with no
\* backup, with backup 1, with backup 2.
Target == [n \in {0} |-> <<Old>>]
InitFiles == {[old |-> {}, cur |-> EmptyMap], [old |-> {}, cur |-> Target],
              [old |-> {1}, cur |-> Target], [old |-> {2}, cur |-> Target]}

FileInit ==
    /\ flw = NoWriter
    /\ fs \in InitFiles
    /\ today = 0
    /\ fileOp = NoCall
    /\ life = [calls |-> 0, faults |-> 0]

\* An open or a write may fail, MaxFaults times in a run.
Outcomes == {ok \in BOOLEAN : ok \/ life.faults < MaxFaults}

\* What the model notes of an intRotate: whether the writer was made with
\* its file open and new; since it was made, the successful LogWrites and the
\* rotations; since the last open that succeeded, the length the file had
\* then, the date, the writes that succeeded and the bytes they returned.
AfterOpen(lf, r, made) ==
    [calls |-> lf.calls,
     faults |-> lf.faults + (IF r.opened THEN 0 ELSE 1),
     made |-> IF made THEN r.opened ELSE lf.made,
     okWrites |-> IF made THEN 0 ELSE lf.okWrites,
     rotations |-> IF made THEN 0 ELSE lf.rotations + 1,
     fresh |-> IF made THEN r.opened /\ Len(r.files.cur[0]) <= 1 ELSE lf.fresh,
     openLen |-> IF r.opened THEN Len(r.files.cur[0]) ELSE IF made THEN 0 ELSE lf.openLen,
     date |-> IF r.opened THEN today ELSE IF made THEN 0 ELSE lf.date,
     lines |-> IF r.opened \/ made THEN 0 ELSE lf.lines,
     bytes |-> IF r.opened \/ made THEN 0 ELSE lf.bytes]

\* NewFileLogWriter(fname, rotate), NewXMLLogWriter(fname, rotate)
NewWriter(kind, rotate, openOk) ==
    /\ panicked = "none"
    /\ flw.kind = "none"
    /\ LET r == intRotate([NoWriter EXCEPT !.kind = kind, !.rotate = rotate],
                           fs, openOk, Day(today))
       IN  /\ flw' = r.f
           /\ fs' = r.files
           /\ fileOp' = [op |-> "New", rotated |-> TRUE, opened |-> r.opened,
                         renamed |-> r.renamed, n |-> 0, err |-> "none"]
           /\ life' = AfterOpen(life, r, TRUE)
    /\ UNCHANGED <<today, panicked, loggerVars, chanVars, fmtVars, sockVars, stepVars>>

NewFileLogWriter(rotate, openOk) == NewWriter("file", rotate, openOk)
NewXMLLogWriter(rotate, openOk) == NewWriter("xml", rotate, openOk)

\* `if err == nil { flw.maxlines_curlines++; flw.maxsize_cursize += n }`
Counted_always(f, n, ok) == [f EXCEPT !.curlines = @ + 1, !.cursize = @ + n]
Counted(f, n, ok) == IF ok THEN [f EXCEPT !.curlines = @ + 1, !.cursize = @ + n] ELSE f

\* LogWrite(rec): rotate if a trigger fires, fail if the writer is not good,
\* write, count.
LogWrite(kind, openOk, writeOk) ==
    /\ panicked = "none"
    /\ flw.kind = kind
    /\ life.calls < MaxCalls
    /\ openOk \/ (FileGood(flw) /\ RotateTriggered(flw, Day(today)))
    /\ writeOk \/ openOk
    /\ LET trig == FileGood(flw) /\ RotateTriggered(flw, Day(today))
           r == IF trig THEN intRotate(flw, fs, openOk, Day(today))
                ELSE [f |-> flw, files |-> fs, renamed |-> 0, opened |-> FALSE]
           lf == IF trig THEN AfterOpen(life, r, FALSE) ELSE life
           ok == r.f.file = "open" /\ writeOk
       IN  /\ IF ~FileGood(r.f)
              THEN /\ flw' = r.f
                   /\ fs' = r.files
                   /\ fileOp' = [op |-> "LogWrite", rotated |-> trig, opened |-> r.opened,
                                 renamed |-> r.renamed, n |-> -1, err |-> "notOpened"]
                   /\ life' = [lf EXCEPT !.calls = @ + 1]
              ELSE /\ flw' = Counted(r.f, IF ok THEN RecSize ELSE 0, ok)
                   /\ fs' = IF ok THEN AppendTo(r.files, Record(kind, Ordinal(r.files)))
                            ELSE r.files
                   /\ fileOp' = [op |-> "LogWrite", rotated |-> trig, opened |-> r.opened,
                                 renamed |-> r.renamed, n |-> IF ok THEN RecSize ELSE 0,
                                 err |-> IF ok THEN "none" ELSE "write"]
                   /\ life' = [lf EXCEPT !.calls = @ + 1,
                                         !.okWrites = IF ok THEN @ + 1 ELSE @,
                                         !.lines = IF ok THEN @ + 1 ELSE @,
                                         !.bytes = IF ok THEN @ + RecSize ELSE @,
                                         !.faults = IF ok \/ r.f.file # "open" THEN @ ELSE @ + 1]
    /\ UNCHANGED <<today, panicked, loggerVars, chanVars, fmtVars, sockVars, stepVars>>

FileLogWrite(openOk, writeOk) == LogWrite("file", openOk, writeOk)
XMLLogWrite(openOk, writeOk) == LogWrite("xml", openOk, writeOk)

\* Rotate(): intRotate under the lock.
Rotate(openOk) ==
    /\ panicked = "none"
    /\ flw.kind # "none"
    /\ life.calls < MaxCalls
    /\ LET r == intRotate(flw, fs, openOk, Day(today))
       IN  /\ flw' = r.f
           /\ fs' = r.files
           /\ fileOp' = [op |-> "Rotate", rotated |-> TRUE, opened |-> r.opened,
                         renamed |-> r.renamed, n |-> 0, err |-> "none"]
           /\ life' = [AfterOpen(life, r, FALSE) EXCEPT !.calls = @ + 1]
    /\ UNCHANGED <<today, panicked, loggerVars, chanVars, fmtVars, sockVars, stepVars>>

\* FileLogWriter.Close: `flw.file.Close(); flw.file = nil`.  Close of a nil
\* *os.File returns an error and does nothing.
FileClose ==
    /\ panicked = "none"
    /\ flw.kind = "file"
    /\ flw' = [flw EXCEPT !.file = "nil"]
    /\ fileOp' = [op |-> "Close", rotated |-> FALSE, opened |-> FALSE, renamed |-> 0,
                  n |-> 0, err |-> "none"]
    /\ UNCHANGED <<fs, life, today, panicked, loggerVars, chanVars, fmtVars, sockVars, stepVars>>

\* XMLLogWriter.Close
XMLCloseCall ==
    /\ panicked = "none"
    /\ flw.kind = "xml"
    /\ LET c == XMLClose(flw, fs)
       IN  /\ flw' = c.f
           /\ fs' = c.files
    /\ fileOp' = [op |-> "Close", rotated |-> FALSE, opened |-> FALSE, renamed |-> 0,
                  n |-> 0, err |-> "none"]
    /\ UNCHANGED <<life, today, panicked, loggerVars, chanVars, fmtVars, sockVars, stepVars>>

\* The setters, called on a writer that has not written yet.
Setter(name, field, value) ==
    /\ panicked = "none"
    /\ flw.kind # "none"
    /\ life.calls = 0
    /\ flw[field] # value
    /\ flw' = [flw EXCEPT ![field] = value]
    /\ UNCHANGED <<fs, life, fileOp, today, panicked, loggerVars, chanVars, fmtVars, sockVars, stepVars>>

SetRotateLines(maxlines) == Setter("SetRotateLines", "maxlines", maxlines)
SetRotateSize(maxsize) == Setter("SetRotateSize", "maxsize", maxsize)
SetRotateDaily(daily) == Setter("SetRotateDaily", "daily", daily)
SetRotate(rotate) == Setter("SetRotate", "rotate", rotate)

\* Midnight passes.  (The date is read by a writer that rotates daily, and
\* by no other.)
NextDay ==
    /\ panicked = "none"
    /\ flw.daily
    /\ today < MaxDate
    /\ today' = today + 1
    /\ UNCHANGED <<flw, fs, life, fileOp, panicked, loggerVars, chanVars, fmtVars, sockVars, stepVars>>

XMLNext ==
    \/ \E rotate \in BOOLEAN, openOk \in Outcomes : NewXMLLogWriter(rotate, openOk)
    \/ \E openOk \in Outcomes, writeOk \in Outcomes : XMLLogWrite(openOk, writeOk)
    \/ \E openOk \in Outcomes : Rotate(openOk)
    \/ XMLCloseCall
    \/ \E maxlines \in 0..MaxLines : SetRotateLines(maxlines)
    \/ \E maxsize \in SizeLimits : SetRotateSize(maxsize)
    \/ \E daily \in BOOLEAN : SetRotateDaily(daily)
    \/ \E rotate \in BOOLEAN : SetRotate(rotate)
    \/ NextDay

FileStart == FileInit /\ LoggerIdle /\ ChanIdle /\ FormatIdle /\ panicked = "none" /\ StepIdle /\ SockIdle

SpecXML == FileStart /\ [][XMLNext]_vars

FileNext ==
    \/ \E rotate \in BOOLEAN, openOk \in Outcomes : NewFileLogWriter(rotate, openOk)
    \/ \E openOk \in Outcomes, writeOk \in Outcomes : FileLogWrite(openOk, writeOk)
    \/ \E openOk \in Outcomes : Rotate(openOk)
    \/ FileClose
    \/ \E maxlines \in 0..MaxLines : SetRotateLines(maxlines)
    \/ \E maxsize \in SizeLimits : SetRotateSize(maxsize)
    \/ \E daily \in BOOLEAN : SetRotateDaily(daily)
    \/ \E rotate \in BOOLEAN : SetRotate(rotate)
    \/ NextDay

SpecFile == FileStart /\ [][FileNext]_vars

\* The files there before the program runs, for the search of a free number:
\* backups 1..BackupLimit-2, 1..BackupLimit-1 or all of 1..BackupLimit.
FullBackups == {[old |-> 1..n, cur |-> Target] : n \in (BackupLimit - 2)..BackupLimit}

BackupsInit ==
    /\ flw = NoWriter
    /\ fs \in FullBackups
    /\ today = 0
    /\ fileOp = NoCall
    /\ life = [calls |-> 0, faults |-> 0]

\* The writer is made and used as it is made: no trigger is set.
BackupsNext ==
    \/ \E rotate \in BOOLEAN, openOk \in Outcomes : NewFileLogWriter(rotate, openOk)
    \/ \E openOk \in Outcomes, writeOk \in Outcomes : FileLogWrite(openOk, writeOk)
    \/ \E openOk \in Outcomes : Rotate(openOk)
    \/ FileClose

BackupsStart == BackupsInit /\ LoggerIdle /\ ChanIdle /\ FormatIdle /\ panicked = "none" /\ StepIdle /\ SockIdle

SpecBackups == BackupsStart /\ [][BackupsNext]_vars

(***************************************************************************)
(* Properties of the file writers                                          *)
(***************************************************************************)
\* The step is a call of NewFileLogWriter/NewXMLLogWriter, LogWrite or Rotate.
Made == flw.kind = "none" /\ flw'.kind # "none"
Called(op) == life'.calls = life.calls + 1 /\ fileOp'.op = op

\* The lines the target holds since it was last opened.
LinesSinceOpen(files, lf) == Len(Content(files, 0)) - lf.openLen

\* C3: FileLogWriter with maxlines = N > 0, no other trigger, the file open
\* and the opens and the write of the call succeeding: the k-th LogWrite
\* after the (re)open, k <= N, does not rotate; the (N+1)-th rotates before
\* it writes, and leaves curlines = 1 and one line in the file it opened.
C3_RotatesAtLinePlusOne ==
    [][(/\ Called("LogWrite")
        /\ flw.kind = "file" /\ flw.file = "open"
        /\ flw.maxlines > 0 /\ flw.maxsize = 0 /\ ~flw.daily
        /\ fileOp'.err = "none")
       => LET k == LinesSinceOpen(fs, life) + 1
          IN  /\ k <= flw.maxlines + 1
              /\ k <= flw.maxlines => ~fileOp'.rotated /\ flw'.curlines = k
              /\ k = flw.maxlines + 1 =>
                     /\ fileOp'.rotated /\ fileOp'.opened
                     /\ flw'.curlines = 1
                     /\ LinesSinceOpen(fs', life') = 1]_vars

\* The third LogWrite of a writer with maxlines = MaxLines rotated and left
\* one line; the file it moved away holds the MaxLines lines before it.
C3_Witness ==
    /\ flw.kind = "file" /\ flw.maxlines = MaxLines /\ flw.maxsize = 0 /\ ~flw.daily
    /\ flw.rotate
    /\ fileOp.op = "LogWrite" /\ fileOp.rotated /\ fileOp.err = "none"
    /\ life.okWrites = MaxLines + 1 /\ life.rotations = 1 /\ life.faults = 0
    /\ flw.curlines = 1
    /\ fileOp.renamed # 0 /\ Len(Content(fs, fileOp.renamed)) >= MaxLines

\* The lowest number in 1..BackupLimit with no backup of that number, 0 if none.
LowestUnused(files) == FirstFree(files, 1, BackupLimit)

\* C4 as stated: a writer with rotate = true that opens (in the constructor,
\* in Rotate or in a LogWrite that rotates) while the target exists moves
\* the target to the lowest unused number, leaves every other backup as it
\* was, and opens the target as a new file.
C4_TargetMovedToLowestUnused ==
    [][(/\ Made \/ Called("Rotate") \/ Called("LogWrite")
        /\ fileOp'.rotated
        /\ flw'.kind = "file" /\ flw'.rotate
        /\ Exists(fs, 0)
        /\ LowestUnused(fs) # 0)
       => LET free == LowestUnused(fs)
          IN  /\ fileOp'.renamed = free
              /\ Exists(fs', free) /\ Content(fs', free) = Content(fs, 0)
              /\ \A m \in (fs.old \cup DOMAIN fs.cur) \ {0} :
                     Exists(fs', m) /\ Content(fs', m) = Content(fs, m)
              /\ \A m \in (fs'.old \cup DOMAIN fs'.cur) \ {0, free} : Exists(fs, m)
              /\ fileOp'.opened => LinesSinceOpen(fs', life') = Len(Content(fs', 0))]_vars

\* C5 as stated: a rotation, in LogWrite or Rotate, whose reopen fails leaves
\* Good() false; the LogWrite returns an error and writes nothing; nothing
\* panics.
C5_FailedReopenUnhealthy ==
    [][(/\ Called("Rotate") \/ Called("LogWrite")
        /\ fileOp'.rotated /\ ~fileOp'.opened)
       => /\ ~FileGood(flw')
          /\ fileOp'.op = "LogWrite" =>
                 /\ fileOp'.err # "none"
                 /\ \A m \in DOMAIN fs'.cur :
                        Content(fs', m) \in {Content(fs, n) : n \in DOMAIN fs.cur} \cup {<<>>}
          /\ panicked' = "none"]_vars

\* What a closed XML log of n records holds.
XMLDocument(n) == <<OpenTag>> \o [i \in 1..n |-> Record("xml", i)] \o <<CloseTag>>

\* Close was called on an XML writer made with its file open, after calls
\* that were all successful LogWrites.
ClosedAfterWrites ==
    /\ flw.kind = "xml" /\ fileOp.op = "Close"
    /\ life.made /\ life.calls = life.okWrites

\* C9 as stated: N successful LogWrites and Close leave the target holding
\* one <log> element with N records.
C9_CloseLeavesOneRoot ==
    ClosedAfterWrites => Content(fs, 0) = XMLDocument(life.okWrites)

\* C9 amended: so it is when the target was new at the open (it was not
\* there, or was moved away) and no LogWrite rotated.
C9_CloseLeavesOneRootOfNewFile ==
    ClosedAfterWrites /\ life.fresh /\ life.rotations = 0
        => Content(fs, 0) = XMLDocument(life.okWrites)

\* Two records were written to a new file and Close called.
C9_Witness ==
    /\ ClosedAfterWrites /\ life.fresh /\ life.rotations = 0
    /\ life.okWrites = 2
    /\ flw.file = "nil"
    /\ Len(Content(fs, 0)) = 4

(***************************************************************************)
(* FormatLogWriter (pattlog.go): a channel of LogBufferLength records and  *)
(* the goroutine `run` that ranges over it.  The records are numbered as   *)
(* LogWrite is called.  A send on a full channel parks the goroutine in    *)
(* the channel's queue of senders; a receive from a full channel moves the *)
(* first parked sender's record into the buffer and wakes it.  A send on   *)
(* a closed channel and a close of a closed channel panic, and so does a   *)
(* sender parked when the channel is closed.                               *)
(***************************************************************************)
LogBufferLength == 2
MaxSends == 4
Goroutines == {"g1", "g2"}

\* `w <- rec` goes through when the buffer has room.
HasRoom_le(c) == Len(c) <= LogBufferLength
HasRoom(c) == Len(c) < LogBufferLength

\* fmt.Fprint(out, FormatLogRecord(format, rec)): the line of record rec.
Rendered(rec) == <<"line", rec>>

\* `for rec := range w` receives the record that was sent first.
Received_last(c) == c[Len(c)]
Received(c) == Head(c)

Parked == {senders[i].g : i \in 1..Len(senders)}

\* NewFormatLogWriter: `make(FormatLogWriter, LogBufferLength)`, `go records.run(out, format)`
ChanInit ==
    /\ chan = <<>>
    /\ chanClosed = FALSE
    /\ chanOut = <<>>
    /\ runPc = [pc |-> "range"]
    /\ senders = <<>>
    /\ nsent = 0
    /\ chanOp = NoCall

\* LogWrite(rec): `w <- rec`, called by goroutine g.
FormatLogWrite(g) ==
    /\ panicked = "none"
    /\ nsent < MaxSends
    /\ g \notin Parked
    /\ nsent' = nsent + 1
    /\ LET rec == nsent + 1
       IN  IF chanClosed
           THEN /\ panicked' = "send on closed channel"
                /\ chanOp' = [op |-> "LogWrite", g |-> g, rec |-> rec, waits |-> FALSE]
                /\ UNCHANGED <<chan, senders>>
           ELSE IF HasRoom(chan)
           THEN /\ chan' = Append(chan, rec)
                /\ chanOp' = [op |-> "LogWrite", g |-> g, rec |-> rec, waits |-> FALSE]
                /\ UNCHANGED <<senders, panicked>>
           ELSE /\ senders' = Append(senders, [g |-> g, rec |-> rec])
                /\ chanOp' = [op |-> "LogWrite", g |-> g, rec |-> rec, waits |-> TRUE]
                /\ UNCHANGED <<chan, panicked>>
    /\ UNCHANGED <<chanClosed, chanOut, runPc, loggerVars, fileVars, fmtVars, sockVars, stepVars>>

\* run: `for rec := range w` receives the first record; the first parked
\* sender's record takes the place freed.
runReceive ==
    /\ panicked = "none"
    /\ runPc.pc = "range"
    /\ chan # <<>>
    /\ runPc' = [pc |-> "write", rec |-> Received(chan)]
    /\ IF senders # <<>>
       THEN /\ chan' = Append(Tail(chan), Head(senders).rec)
            /\ senders' = Tail(senders)
       ELSE /\ chan' = Tail(chan)
            /\ UNCHANGED senders
    /\ UNCHANGED <<chanClosed, chanOut, nsent, chanOp, panicked, loggerVars, fileVars, fmtVars, sockVars, stepVars>>

\* run: `fmt.Fprint(out, FormatLogRecord(format, rec))`
runWrite ==
    /\ panicked = "none"
    /\ runPc.pc = "write"
    /\ chanOut' = Append(chanOut, Rendered(runPc.rec))
    /\ runPc' = [pc |-> "range"]
    /\ UNCHANGED <<chan, chanClosed, senders, nsent, chanOp, panicked, loggerVars, fileVars, fmtVars, sockVars, stepVars>>

\* run: the range ends when the channel is closed and empty.
runExit ==
    /\ panicked = "none"
    /\ runPc.pc = "range"
    /\ chan = <<>>
    /\ chanClosed
    /\ runPc' = [pc |-> "done"]
    /\ UNCHANGED <<chan, chanClosed, chanOut, senders, nsent, chanOp, panicked, loggerVars, fileVars, fmtVars, sockVars, stepVars>>

run == runReceive \/ runWrite \/ runExit

\* Close: `close(w)`
FormatClose ==
    /\ panicked = "none"
    /\ IF chanClosed
       THEN /\ panicked' = "close of closed channel"
            /\ UNCHANGED chanClosed
       ELSE /\ chanClosed' = TRUE
            /\ panicked' = IF senders # <<>> THEN "send on closed channel" ELSE "none"
    /\ chanOp' = [op |-> "Close", again |-> chanClosed]
    /\ UNCHANGED <<chan, chanOut, runPc, senders, nsent, loggerVars, fileVars, fmtVars, sockVars, stepVars>>

ChanNext ==
    \/ \E g \in Goroutines : FormatLogWrite(g)
    \/ runReceive
    \/ runWrite
    \/ runExit
    \/ FormatClose

\* The goroutine `run` is scheduled while it has a step to take.
ChanStart == ChanInit /\ LoggerIdle /\ FileIdle /\ FormatIdle /\ panicked = "none" /\ StepIdle /\ SockIdle

SpecChan == ChanStart /\ [][ChanNext]_vars /\ WF_vars(run)

(***************************************************************************)
(* Properties of the FormatLogWriter                                       *)
(***************************************************************************)
\* The step is a call of LogWrite, of Close.
LogWriteCalled == nsent' = nsent + 1
CloseCalled == chanOp' # chanOp /\ chanOp'.op = "Close"

\* The records of the writer in the order they go out: written, in the hands
\* of run, buffered, parked.
Held == IF runPc.pc = "write" THEN <<runPc.rec>> ELSE <<>>
InFlight ==
    [i \in 1..Len(chanOut) |-> chanOut[i][2]] \o Held \o chan
        \o [i \in 1..Len(senders) |-> senders[i].rec]

\* C6 as stated, for the FormatLogWriter: a Close after a Close does not
\* panic and leaves the writer as the first Close left it.
C6_SecondCloseHarmless ==
    [][CloseCalled /\ chanClosed
         => panicked' = "none" /\ chanClosed' /\ chan' = chan /\ runPc' = runPc]_vars

\* C7: on a writer that is not closed, a LogWrite with fewer than
\* LogBufferLength records buffered puts its record in the buffer and
\* returns; with LogBufferLength buffered it parks, and the buffer is left
\* alone.  A parked goroutine is released only by run taking the first
\* record of the buffer, and its record then takes the last place.  The
\* buffer never holds more than LogBufferLength, and every record of every
\* call is written, held by run, buffered or parked, once and in the order
\* of the calls.
C7_LogWriteWaitsOnlyWhenFull ==
    [][/\ LogWriteCalled /\ ~chanClosed =>
             IF Len(chan) < LogBufferLength
             THEN /\ ~chanOp'.waits
                  /\ chan' = Append(chan, chanOp'.rec)
                  /\ senders' = senders
             ELSE /\ chanOp'.waits
                  /\ chan' = chan
                  /\ senders' = Append(senders, [g |-> chanOp'.g, rec |-> chanOp'.rec])
       /\ Len(senders') < Len(senders) =>
             /\ Len(chan) = LogBufferLength
             /\ runPc'.pc = "write" /\ runPc'.rec = Head(chan)
             /\ chan' = Append(Tail(chan), Head(senders).rec)
             /\ senders' = Tail(senders)
       /\ Len(chan') <= LogBufferLength
       /\ panicked' = "none" => InFlight' = [i \in 1..nsent' |-> i]]_vars

\* A goroutine is parked in LogWrite behind a full buffer, and another was
\* parked and has been released by run.
C7_Witness ==
    /\ ~chanClosed /\ panicked = "none"
    /\ chanOp.op = "LogWrite" /\ chanOp.waits
    /\ Len(chan) = LogBufferLength
    /\ Len(senders) = 1 /\ senders[1].rec = MaxSends
    /\ chanOut # <<>>

\* Every record of every LogWrite is written, in order.
Drained == chanOut = [i \in 1..nsent |-> Rendered(i)]

\* C8 as stated: run ends only with the buffer empty, and once Close is
\* called every record buffered is in the end written; but for a LogWrite
\* after the Close, which the writer leaves undefined.
C8_CloseDrains ==
    /\ [](runPc.pc = "done" => chan = <<>> /\ chanClosed)
    /\ chanClosed ~> (Drained \/ panicked = "send on closed channel")

(***************************************************************************)
(* FormatLogRecord with the cache of time strings.  The source holds three *)
(* definitions: pattlog.go ("mutex"), and in part_004 the one that copies  *)
(* the cache on update ("copy") and the one under a RWMutex ("rwmutex").   *)
(* A string is the sequence of its characters; the level, the source and   *)
(* the message go into the output whole.  rec.Created counts ticks,        *)
(* TicksPerSecond to the second, and TimeConversionFunction is the UTC     *)
(* one, for times in January 1970.                                         *)
(***************************************************************************)
TicksPerSecond == 2
MaxFormats == 3
Builds == {"mutex", "copy", "rwmutex"}
Seconds == {0, 60, 90061}
Createds == {sec * TicksPerSecond + tick : sec \in Seconds, tick \in {0, TicksPerSecond - 1}}
Formats == {<<>>, <<"%", "T">>, <<"%", "t", " ", "%", "d">>,
            <<"[", "%", "D", "]", "%", "L", "%", "M">>, <<"%", "x", "%">>,
            <<"%", "L", " ", "%", "M">>, <<"a", "%", "Z", "b">>,
            <<"(", "%", "S", ")", "%", "%", "M">>}
FormatRecords ==
    {[Level |-> lv, Created |-> c, Source |-> "src", Message |-> "x"] :
        lv \in {INFO, CRITICAL}, c \in Createds}
TimeCodes == {"T", "t", "D", "d"}

\* time.SecondsToUTC
TimeConversionFunction(secs) ==
    [Year |-> 1970, Month |-> 1, Day |-> (secs \div 86400) + 1,
     Hour |-> (secs \div 3600) % 24, Minute |-> (secs \div 60) % 60,
     Second |-> secs % 60, Zone |-> <<"U", "T", "C">>]

\* fmt.Sprintf's %02d and %04d of a number of no more digits.
Digit(n) == <<"0", "1", "2", "3", "4", "5", "6", "7", "8", "9">>[n + 1]
Pad2(n) == <<Digit((n \div 10) % 10), Digit(n % 10)>>
Pad4(n) == <<Digit((n \div 1000) % 10), Digit((n \div 100) % 10)>> \o Pad2(n)

\* The four Sprintf calls: "15:04:05 MST", "15:04", "2006/01/02", "01/02/06".
Sprintf(code, tm) ==
    CASE code = "T" -> Pad2(tm.Hour) \o <<":">> \o Pad2(tm.Minute) \o <<":">>
                         \o Pad2(tm.Second) \o <<" ">> \o tm.Zone
      [] code = "t" -> Pad2(tm.Hour) \o <<":">> \o Pad2(tm.Minute)
      [] code = "D" -> Pad4(tm.Year) \o <<"/">> \o Pad2(tm.Month) \o <<"/">> \o Pad2(tm.Day)
      [] code = "d" -> Pad2(tm.Month) \o <<"/">> \o Pad2(tm.Day) \o <<"/">>
                         \o Pad2(tm.Year % 100)

\* bytes.Split(format, "%"): the pieces between the % signs.
RECURSIVE Split(_, _, _)
Split(format, i, piece) ==
    IF i > Len(format) THEN <<piece>>
    ELSE IF format[i] = "%" THEN <<piece>> \o Split(format, i + 1, <<>>)
    ELSE Split(format, i + 1, Append(piece, format[i]))

\* The zero value of the cache: tm is nil (<<>>), the strings empty.
ZeroCache ==
    [tm |-> <<>>, LastUpdateSeconds |-> 0, T |-> <<>>, t |-> <<>>, D |-> <<>>, d |-> <<>>]

\* The cache with its four strings made for secs.
Refreshed(cache, secs) ==
    LET tm == TimeConversionFunction(secs)
    IN  [cache EXCEPT !.T = Sprintf("T", tm), !.t = Sprintf("t", tm),
                      !.D = Sprintf("D", tm), !.d = Sprintf("d", tm)]

\* What each build does to the cache before it walks the pieces.
\* pattlog.go: `stale := secs != formatCache.LastUpdateSeconds`, tm set if stale;
\* copy: all is made anew, LastUpdateSeconds with it, if the second differs;
\* rwmutex: the strings are made anew if the second differs, LastUpdateSeconds is not set.
CacheFor(build, cache, secs) ==
    CASE build = "mutex" ->
           IF secs # cache.LastUpdateSeconds
           THEN [cache EXCEPT !.tm = <<TimeConversionFunction(secs)>>]
           ELSE cache
      [] build = "copy" ->
           IF cache.LastUpdateSeconds # secs
           THEN [Refreshed(cache, secs) EXCEPT !.LastUpdateSeconds = secs]
           ELSE cache
      [] build = "rwmutex" ->
           IF secs # cache.LastUpdateSeconds THEN Refreshed(cache, secs) ELSE cache

\* `switch piece[0]` for the codes that are not of the time: what is written.
Substitute_noSource(code, rec) ==
    CASE code = "L" -> <<levelStrings[rec.Level + 1]>>
      [] code = "M" -> <<rec.Message>>
      [] OTHER -> <<>>
Substitute(code, rec) ==
    CASE code = "L" -> <<levelStrings[rec.Level + 1]>>
      [] code = "S" -> <<rec.Source>>
      [] code = "M" -> <<rec.Message>>
      [] OTHER -> <<>>

\* The loop over the pieces from the i-th on: acc is [cache, out, subs,
\* made, panic], subs the time strings put out, each with its code, made
\* the number of Sprintf calls of the loop.
RECURSIVE Pieces(_, _, _, _, _, _)
Pieces(build, pieces, i, rec, stale, acc) ==
    IF i > Len(pieces) \/ acc.panic THEN acc
    ELSE LET piece == pieces[i]
             code == piece[1]
             fill == build = "mutex" /\ (stale \/ acc.cache[code] = <<>>)
             cache == IF fill /\ acc.cache.tm # <<>>
                      THEN [acc.cache EXCEPT ![code] = Sprintf(code, acc.cache.tm[1])]
                      ELSE acc.cache
         IN  IF i > 1 /\ Len(piece) > 0
             THEN IF code \in TimeCodes
                  THEN IF fill /\ acc.cache.tm = <<>>
                       THEN [acc EXCEPT !.panic = TRUE]
                       ELSE Pieces(build, pieces, i + 1, rec, stale,
                                [cache |-> cache,
                                 out |-> acc.out \o cache[code] \o Tail(piece),
                                 subs |-> Append(acc.subs, [code |-> code, text |-> cache[code]]),
                                 made |-> IF fill THEN acc.made + 1 ELSE acc.made,
                                 conv |-> acc.conv,
                                 panic |-> FALSE])
                  ELSE Pieces(build, pieces, i + 1, rec, stale,
                           [acc EXCEPT !.out = @ \o Substitute(code, rec) \o Tail(piece)])
             ELSE Pieces(build, pieces, i + 1, rec, stale, [acc EXCEPT !.out = @ \o piece])

\* The calls of TimeConversionFunction one FormatLogRecord makes: one where
\* the record's second is not LastUpdateSeconds (pattlog.go:63-67,
\* part_004:54-55, 179-182).
Conversions(cache, secs) == IF secs # cache.LastUpdateSeconds THEN 1 ELSE 0

\* The Sprintf calls made with it outside the loop: the four of part_004.
Derivations(build, cache, secs) ==
    IF build = "mutex" THEN 0 ELSE Cardinality(TimeCodes) * Conversions(cache, secs)

\* FormatLogRecord(format, rec): the cache it leaves, the string it returns,
\* the conversions of the time (conv) and the Sprintf calls (made) it did.
FormatLogRecordResult(build, cache, format, rec) ==
    IF build # "rwmutex" /\ Len(format) = 0
    THEN [cache |-> cache, out |-> <<>>, subs |-> <<>>, made |-> 0, conv |-> 0,
          panic |-> FALSE]
    ELSE LET secs == rec.Created \div TicksPerSecond
             stale == secs # cache.LastUpdateSeconds
             acc == Pieces(build, Split(format, 1, <<>>), 1, rec, stale,
                        [cache |-> CacheFor(build, cache, secs), out |-> <<>>,
                         subs |-> <<>>, made |-> Derivations(build, cache, secs),
                         conv |-> Conversions(cache, secs), panic |-> FALSE])
         IN  IF acc.panic THEN acc ELSE [acc EXCEPT !.out = Append(@, "\n")]

FormatInit ==
    /\ formatBuild \in Builds
    /\ formatCache = ZeroCache
    /\ fmtCall = [op |-> "none", n |-> 0]

FormatLogRecord(format, rec) ==
    /\ panicked = "none"
    /\ fmtCall.n < MaxFormats
    /\ LET r == FormatLogRecordResult(formatBuild, formatCache, format, rec)
       IN  /\ formatCache' = r.cache
           /\ fmtCall' = [op |-> "FormatLogRecord", n |-> fmtCall.n + 1, format |-> format,
                          rec |-> rec, out |-> r.out, subs |-> r.subs, made |-> r.made,
                          conv |-> r.conv, panic |-> r.panic]
           /\ panicked' = IF r.panic THEN "nil pointer dereference" ELSE "none"
    /\ UNCHANGED <<formatBuild, loggerVars, fileVars, chanVars, stepVars, sockVars>>

FormatNext == \E format \in Formats, rec \in FormatRecords : FormatLogRecord(format, rec)

FormatStart == FormatInit /\ LoggerIdle /\ FileIdle /\ ChanIdle /\ panicked = "none" /\ StepIdle /\ SockIdle

SpecFormat == FormatStart /\ [][FormatNext]_vars

(***************************************************************************)
(* Properties of FormatLogRecord                                           *)
(***************************************************************************)
\* C10 as stated: whatever the calls before it, a FormatLogRecord call
\* returns, and every %T, %t, %D and %d it put out is the string of the
\* second of the record's own Created.
C10_TimeStringsOfOwnSecond ==
    fmtCall.op = "FormatLogRecord" =>
        /\ ~fmtCall.panic
        /\ \A i \in 1..Len(fmtCall.subs) :
               fmtCall.subs[i].text =
                   Sprintf(fmtCall.subs[i].code,
                           TimeConversionFunction(fmtCall.rec.Created \div TicksPerSecond))

\* The text a call returned, without the newline that ends it.
Body(out) == IF out # <<>> /\ out[Len(out)] = "\n" THEN SubSeq(out, 1, Len(out) - 1) ELSE out

\* The template read from the left, from its i-th character: a character
\* that is not % is copied; %L, %S and %M give the level's name, the source
\* and the message; %T, %t, %D and %d give the next of the time strings
\* `subs`; any other %X is left out, and so is a % that ends the template.
\* With `again`, a % before a % is left out alone and the second % read anew.
RECURSIVE Rendering(_, _, _, _, _, _)
Rendering(format, i, rec, subs, k, again) ==
    IF i > Len(format) THEN <<>>
    ELSE IF format[i] # "%"
    THEN <<format[i]>> \o Rendering(format, i + 1, rec, subs, k, again)
    ELSE IF i = Len(format) THEN <<>>
    ELSE LET X == format[i + 1]
         IN  IF X \in TimeCodes
             THEN (IF k <= Len(subs) THEN subs[k].text ELSE <<>>)
                      \o Rendering(format, i + 2, rec, subs, k + 1, again)
             ELSE IF X = "L"
             THEN <<levelStrings[rec.Level + 1]>>
                      \o Rendering(format, i + 2, rec, subs, k, again)
             ELSE IF X = "S"
             THEN <<rec.Source>> \o Rendering(format, i + 2, rec, subs, k, again)
             ELSE IF X = "M"
             THEN <<rec.Message>> \o Rendering(format, i + 2, rec, subs, k, again)
             ELSE IF X = "%" /\ again
             THEN Rendering(format, i + 1, rec, subs, k, again)
             ELSE Rendering(format, i + 2, rec, subs, k, again)

\* C11 as stated: a call that returns gives the template's text with %L, %S
\* and %M replaced and every other two-character %X, not of the time, left
\* out whole.
C11_TemplateRendered ==
    fmtCall.op = "FormatLogRecord" /\ ~fmtCall.panic =>
        Body(fmtCall.out) =
            Rendering(fmtCall.format, 1, fmtCall.rec, fmtCall.subs, 1, FALSE)

\* C11 amended: so it is for X other than %; a % before a % is left out
\* alone, and the second % starts the next escape.
C11_TemplateRenderedButPercent ==
    fmtCall.op = "FormatLogRecord" /\ ~fmtCall.panic =>
        Body(fmtCall.out) =
            Rendering(fmtCall.format, 1, fmtCall.rec, fmtCall.subs, 1, TRUE)

\* "%L %M" of a CRITICAL record with message "x" gave "CRIT x\n".
C11_Witness ==
    /\ fmtCall.op = "FormatLogRecord"
    /\ fmtCall.format = <<"%", "L", " ", "%", "M">>
    /\ fmtCall.rec.Level = CRITICAL
    /\ fmtCall.out = <<"CRIT", " ", "x", "\n">>

(***************************************************************************)
(* AddFilter and Log on two goroutines.  Neither takes a lock (AddFilter   *)
(* "is NOT INTERNALLY THREAD SAFE"), so the goroutine "adder" runs an      *)
(* AddFilter statement by statement while the goroutine "caller" runs a    *)
(* Log: the scan of filterLevels, then one filter of logto at a time.      *)
(***************************************************************************)
MaxAdds == 2
MaxLogs == 2

\* NewLogger, then AddFilter("file", WARNING, w1), before the goroutines start.
RaceInit ==
    /\ filterLevels = [filt \in {"file"} |-> WARNING]
    /\ filterLogWriters = [filt \in {"file"} |-> "w1"]
    /\ writerState = [w \in Sinks |-> "good"]
    /\ lastCall = NoCall
    /\ now = 0
    /\ procs = [g \in {"adder", "caller"} |-> [pc |-> "idle", n |-> 0]]
    /\ lock = "free"
    /\ regs = [name \in Names |->
                  IF name = "file" THEN {[level |-> WARNING, writer |-> "w1"]} ELSE {}]

\* The adder calls AddFilter(name, level, writer).
AddFilterCall(name, level, writer) ==
    /\ panicked = "none"
    /\ procs["adder"].pc = "idle"
    /\ procs["adder"].n < MaxAdds
    /\ procs' = [procs EXCEPT
                   !["adder"] = [pc |-> "check", n |-> @.n + 1, name |-> name,
                                 level |-> level, writer |-> writer],
                   !["caller"] = IF @.pc = "idle" THEN @ ELSE [@ EXCEPT !.alone = FALSE]]
    /\ UNCHANGED <<loggerVars, lock, regs, panicked, fileVars, chanVars, fmtVars, sockVars>>

\* `if writer == nil || !writer.Good() { return }`
AddFilterCheck ==
    /\ panicked = "none"
    /\ procs["adder"].pc = "check"
    /\ LET a == procs["adder"]
           ok == ~Refused(a.writer, writerState)
       IN  /\ procs' = [procs EXCEPT !["adder"].pc = IF ok THEN "levels" ELSE "idle"]
           /\ regs' = IF ok THEN [regs EXCEPT ![a.name] =
                                     @ \cup {[level |-> a.level, writer |-> a.writer]}]
                      ELSE regs
    /\ UNCHANGED <<loggerVars, lock, panicked, fileVars, chanVars, fmtVars, sockVars>>

\* `log.filterLevels[name] = level`
AddFilterLevels ==
    /\ panicked = "none"
    /\ procs["adder"].pc = "levels"
    /\ filterLevels' = StoreLevel(filterLevels, procs["adder"].name, procs["adder"].level)
    /\ procs' = [procs EXCEPT !["adder"].pc = "writers"]
    /\ UNCHANGED <<filterLogWriters, writerState, lastCall, now, lock, regs, panicked,
                   fileVars, chanVars, fmtVars, sockVars>>

\* `log.filterLogWriters[name] = writer`
AddFilterWriters ==
    /\ panicked = "none"
    /\ procs["adder"].pc = "writers"
    /\ filterLogWriters' =
           StoreWriter(filterLogWriters, procs["adder"].name, procs["adder"].writer)
    /\ procs' = [procs EXCEPT !["adder"].pc = "idle"]
    /\ UNCHANGED <<filterLevels, writerState, lastCall, now, lock, regs, panicked,
                   fileVars, chanVars, fmtVars, sockVars>>

\* The caller calls Log(level, source, message).
LogCall(level) ==
    /\ panicked = "none"
    /\ procs["caller"].pc = "idle"
    /\ procs["caller"].n < MaxLogs
    /\ procs' = [procs EXCEPT
                   !["caller"] = [pc |-> "scan", n |-> @.n + 1, level |-> level,
                                  alone |-> procs["adder"].pc = "idle", mixed |-> FALSE,
                                  seen |-> EmptyMap, todo |-> <<>>, calls |-> <<>>]]
    /\ UNCHANGED <<loggerVars, lock, regs, panicked, fileVars, chanVars, fmtVars, sockVars>>

\* `for filt := range log.filterLevels { if level >= log.filterLevels[filt] { logto.Push(filt) } }`
LogScan ==
    /\ panicked = "none"
    /\ procs["caller"].pc = "scan"
    /\ LET logto == Admitted(procs["caller"].level, filterLevels)
       IN  \E order \in Orders(logto) :
              procs' = [procs EXCEPT
                          !["caller"].pc = IF logto = {} THEN "idle" ELSE "dispatch",
                          !["caller"].seen = [filt \in logto |-> filterLevels[filt]],
                          !["caller"].todo = order]
    /\ UNCHANGED <<loggerVars, lock, regs, panicked, fileVars, chanVars, fmtVars, sockVars>>

\* `lw := log.filterLogWriters[filt]; if lw.Good() { lw.LogWrite(rec) }` for
\* the next filter of logto.  A name that is not in the map gives the nil
\* LogWriter, and the call of Good() on it panics.
LogDispatch ==
    /\ panicked = "none"
    /\ procs["caller"].pc = "dispatch"
    /\ LET c == procs["caller"]
           filt == Head(c.todo)
           rest == Tail(c.todo)
       IN  IF filt \notin DOMAIN filterLogWriters
           THEN /\ panicked' = "nil LogWriter"
                /\ procs' = [procs EXCEPT !["caller"].mixed = TRUE]
                /\ UNCHANGED writerState
           ELSE LET lw == filterLogWriters[filt]
                    pair == [level |-> c.seen[filt], writer |-> lw]
                IN  /\ procs' = [procs EXCEPT
                                   !["caller"].pc = IF rest = <<>> THEN "idle" ELSE "dispatch",
                                   !["caller"].todo = rest,
                                   !["caller"].mixed = @ \/ pair \notin regs[filt],
                                   !["caller"].calls =
                                       IF Good(writerState[lw])
                                       THEN Append(@, [name |-> filt, writer |-> lw])
                                       ELSE @]
                    /\ writerState' = IF Good(writerState[lw])
                                      THEN [writerState EXCEPT ![lw] = LogWriteState(@)]
                                      ELSE writerState
                    /\ UNCHANGED panicked
    /\ UNCHANGED <<filterLevels, filterLogWriters, lastCall, now, lock, regs,
                   fileVars, chanVars, fmtVars, sockVars>>

RaceNext ==
    \/ \E name \in Names, level \in Thresholds, writer \in Sinks \cup {Nil} :
           AddFilterCall(name, level, writer)
    \/ AddFilterCheck
    \/ AddFilterLevels
    \/ AddFilterWriters
    \/ \E level \in LogLevels : LogCall(level)
    \/ LogScan
    \/ LogDispatch

RaceStart == RaceInit /\ FileIdle /\ ChanIdle /\ FormatIdle /\ panicked = "none" /\ SockIdle

SpecRace == RaceStart /\ [][RaceNext]_vars

\* C12 as stated: no Log, whatever AddFilter runs beside it, uses the
\* threshold of one registration of a name with the writer of another, or
\* finds the name in filterLevels and not in filterLogWriters.
C12_NoHalfUpdatedPair ==
    procs["caller"].n > 0 => ~procs["caller"].mixed /\ panicked = "none"

\* C12 amended: so it is for a Log during which no AddFilter runs.
C12_NoHalfUpdatedPairAlone ==
    procs["caller"].n > 0 /\ procs["caller"].alone =>
        ~procs["caller"].mixed /\ panicked = "none"

\* After an AddFilter put w2 in the place of w1 under "file", a Log with no
\* AddFilter beside it has written to w2.
C12_Witness ==
    /\ procs["caller"].n > 0 /\ procs["caller"].alone /\ procs["caller"].pc = "idle"
    /\ procs["adder"].pc = "idle" /\ procs["adder"].n > 0
    /\ filterLogWriters["file"] = "w2"
    /\ procs["caller"].calls = <<[name |-> "file", writer |-> "w2"]>>

(***************************************************************************)
(* The life of a Logger: NewLogger, NewConsoleLogger, AddFilter, Log and   *)
(* Close, called one after the other.  regs keeps, for each name, whether  *)
(* an AddFilter under it was accepted since the Logger was made or closed. *)
(***************************************************************************)

\* ConsoleLogWriter.Close does nothing; the other writers drop what they hold.
CloseState(w, st) == IF w = Console THEN st ELSE "closed"

NoNames == [name \in Names |-> FALSE]

RegistryInit ==
    /\ filterLevels = EmptyMap
    /\ filterLogWriters = EmptyMap
    /\ writerState = [s \in Sinks \cup {Console} |-> "good"]
    /\ lastCall = NoCall
    /\ now = 0
    /\ procs = EmptyMap
    /\ lock = "free"
    /\ regs = NoNames

NewLogger ==
    /\ panicked = "none"
    /\ filterLevels' = EmptyMap
    /\ filterLogWriters' = EmptyMap
    /\ regs' = NoNames
    /\ lastCall' = [op |-> "NewLogger"]
    /\ UNCHANGED <<writerState, now, panicked, fileVars, chanVars, fmtVars, sockVars, procs, lock>>

\* NewLogger, then AddFilter("stdout", level, new(ConsoleLogWriter)).
NewConsoleLogger(level) ==
    /\ panicked = "none"
    /\ filterLevels' = StoreLevel(EmptyMap, "stdout", level)
    /\ filterLogWriters' = StoreWriter(EmptyMap, "stdout", Console)
    /\ regs' = Registered(NoNames, "stdout")
    /\ lastCall' = [op |-> "NewConsoleLogger", level |-> level]
    /\ UNCHANGED <<writerState, now, panicked, fileVars, chanVars, fmtVars, sockVars, procs, lock>>

\* The Close calls of Logger.Close, in the order the range visits the keys.
CloseCalls(order, writers) ==
    [i \in 1..Len(order) |-> [name |-> order[i], writer |-> writers[order[i]]]]

\* What is left of a map when the loop has deleted the keys it visited.
Deleted_none(map, order) == map
Deleted(map, order) ==
    [filt \in DOMAIN map \ {order[i] : i \in 1..Len(order)} |-> map[filt]]

\* Logger.Close.  A writer's Close returns nothing: what fails inside it
\* (`failed`, the keys whose writer could not close its file or socket) is
\* not seen by the loop.
LoggerClose ==
    /\ panicked = "none"
    /\ \E order \in Orders(DOMAIN filterLogWriters) :
       \E failed \in SUBSET (DOMAIN filterLogWriters) :
          LET closed == CloseCalls(order, filterLogWriters)
          IN  /\ writerState' =
                     [w \in DOMAIN writerState |->
                         IF \E i \in 1..Len(closed) : closed[i].writer = w
                         THEN CloseState(w, writerState[w]) ELSE writerState[w]]
              /\ filterLogWriters' = Deleted(filterLogWriters, order)
              /\ filterLevels' = Deleted(filterLevels, order)
              /\ lastCall' = [op |-> "Close", closed |-> closed, failed |-> failed]
    /\ regs' = NoNames
    /\ UNCHANGED <<now, panicked, fileVars, chanVars, fmtVars, sockVars, procs, lock>>

\* log.AddFilter(...).AddFilter(name, level, writer): AddFilter called on what
\* the AddFilter before it returned.  On a nil *Logger the test of the writer
\* still runs, and the store `log.filterLevels[name] = level` reads through
\* the nil pointer.
AddFilterChained(name, level, writer) ==
    /\ panicked = "none"
    /\ lastCall.op \in {"AddFilter", "AddFilter on nil"}
    /\ IF lastCall.ret = Self
       THEN AddFilter(name, level, writer)
       ELSE /\ panicked' = IF Refused(writer, writerState) THEN "none" ELSE "nil dereference"
            /\ lastCall' = [op |-> "AddFilter on nil", name |-> name, level |-> level,
                             writer |-> writer, ret |-> Nil]
            /\ UNCHANGED <<filterLevels, filterLogWriters, regs, writerState, now,
                           fileVars, chanVars, fmtVars, sockVars, procs, lock>>

\* `level` is an int: nothing keeps a caller inside FINEST..CRITICAL.
OutOfRange == {FINEST - 1, CRITICAL + 1}

RegistryNext ==
    \/ NewLogger
    \/ \E level \in Thresholds : NewConsoleLogger(level)
    \/ \E name \in Names, level \in Thresholds, writer \in Sinks \cup {Nil} :
           AddFilter(name, level, writer)
    \/ \E name \in Names, level \in Thresholds, writer \in Sinks \cup {Nil} :
           AddFilterChained(name, level, writer)
    \/ \E level \in LogLevels \cup OutOfRange, source \in Sources, message \in Messages :
           Log(level, source, message)
    \/ LoggerClose
    \/ \E s \in Sinks, st \in WriterStates : WriterEvent(s, st)

RegistryStart == RegistryInit /\ FileIdle /\ ChanIdle /\ FormatIdle /\ panicked = "none" /\ SockIdle

SpecRegistry == RegistryStart /\ [][RegistryNext]_vars

\* An AddFilter step, told by the record it leaves, and whether the writer
\* it was given is one AddFilter takes.
AddFilterStep == lastCall'.op = "AddFilter"
Taken == lastCall'.writer # Nil /\ Good(writerState[lastCall'.writer])

\* C13: the two maps have the same keys, no stored writer is nil, there are
\* as many entries as names an AddFilter was accepted under since the Logger
\* was made or last closed, and right after NewConsoleLogger(level) the
\* one entry is "stdout" at that level.
C13_MapsInStep ==
    /\ DOMAIN filterLevels = DOMAIN filterLogWriters
    /\ \A filt \in DOMAIN filterLogWriters : filterLogWriters[filt] # Nil
    /\ DOMAIN filterLevels = {name \in Names : regs[name]}
    /\ Cardinality(DOMAIN filterLogWriters) = Cardinality({name \in Names : regs[name]})
    /\ lastCall.op = "NewConsoleLogger" =>
           /\ DOMAIN filterLogWriters = {"stdout"}
           /\ filterLevels["stdout"] = lastCall.level

\* Two names are registered and an AddFilter with a nil writer was just refused.
C13_Witness ==
    /\ lastCall.op = "AddFilter" /\ lastCall.writer = Nil
    /\ Cardinality(DOMAIN filterLevels) = 2
    /\ \E s \in Sinks : writerState[s] = "closed"

\* C14: an AddFilter with a nil writer, or with one whose Good() is false,
\* leaves both maps as they were.
C14_RefusedChangesNothing ==
    [][AddFilterStep /\ ~Taken => UNCHANGED <<filterLevels, filterLogWriters>>]_vars

\* An AddFilter with a writer that is not Good was refused under a name that
\* is registered with another writer.
C14_Witness ==
    /\ lastCall.op = "AddFilter" /\ lastCall.writer # Nil
    /\ ~Good(writerState[lastCall.writer])
    /\ lastCall.name \in DOMAIN filterLogWriters
    /\ filterLogWriters[lastCall.name] # lastCall.writer

\* C15: an accepted AddFilter under a registered name puts its level and
\* writer there, leaves the other entries and the number of entries as they
\* were, and closes no writer; a Log writes, under each name, to the writer
\* registered there last.
C15_ReplacesOneEntry ==
    [][/\ AddFilterStep /\ Taken /\ lastCall'.name \in DOMAIN filterLevels =>
            /\ lastCall'.name \in DOMAIN filterLevels' \cap DOMAIN filterLogWriters'
            /\ filterLevels'[lastCall'.name] = lastCall'.level
            /\ filterLogWriters'[lastCall'.name] = lastCall'.writer
            /\ DOMAIN filterLevels' = DOMAIN filterLevels
            /\ DOMAIN filterLogWriters' = DOMAIN filterLogWriters
            /\ \A filt \in DOMAIN filterLevels \ {lastCall'.name} :
                   /\ filterLevels'[filt] = filterLevels[filt]
                   /\ filterLogWriters'[filt] = filterLogWriters[filt]
            /\ writerState' = writerState
       /\ lastCall'.op = "Log" =>
            \A i \in 1..Len(lastCall'.calls) :
                lastCall'.calls[i].writer = filterLogWriters[lastCall'.calls[i].name]
      ]_vars

\* "file" was moved from one writer to the other, the one it had is still
\* good, and the other entry is there.
C15_Witness ==
    /\ lastCall.op = "AddFilter" /\ lastCall.name = "file" /\ lastCall.writer = "w2"
    /\ filterLogWriters = [filt \in Names |-> IF filt = "file" THEN "w2" ELSE "w1"]
    /\ writerState["w1"] = "good" /\ writerState["w2"] = "good"

\* C16: Logger.Close calls Close on the writer of every entry, whatever
\* fails inside a writer's Close, and leaves both maps empty; with both maps
\* empty a Log calls no writer.
C16_CloseClosesAll ==
    [][/\ lastCall'.op = "Close" =>
            /\ \A filt \in DOMAIN filterLogWriters :
                   \E i \in 1..Len(lastCall'.closed) :
                       lastCall'.closed[i] = [name |-> filt, writer |-> filterLogWriters[filt]]
            /\ filterLevels' = EmptyMap
            /\ filterLogWriters' = EmptyMap
       /\ lastCall'.op = "Log" /\ filterLevels = EmptyMap /\ filterLogWriters = EmptyMap =>
            lastCall'.calls = <<>>
      ]_vars

\* A Close of a Logger with two entries, where the Close of a writer failed
\* inside, has emptied both maps.
C16_Witness ==
    /\ lastCall.op = "Close" /\ Len(lastCall.closed) = 2 /\ lastCall.failed # {}
    /\ filterLevels = EmptyMap /\ filterLogWriters = EmptyMap

(***************************************************************************)
(* LogWrite and Rotate of one FileLogWriter or XMLLogWriter, called from   *)
(* two goroutines and run statement by statement: `lock` is the writer's   *)
(* sync.Mutex, "free" or the goroutine that holds it.                      *)
(***************************************************************************)
MaxOps == 2

\* flw.lock.Lock() returns when the mutex is free.
Lockable_any(l) == TRUE
Lockable(l) == l = "free"

\* A writer made with its file open, and its line trigger set or not.
LockInit ==
    /\ \E kind \in {"file", "xml"}, rotate \in BOOLEAN, maxlines \in {0, 1} :
          LET r == intRotate([NoWriter EXCEPT !.kind = kind, !.rotate = rotate],
                             [old |-> {}, cur |-> Target], TRUE, Day(0))
          IN  /\ flw = [r.f EXCEPT !.maxlines = maxlines]
              /\ fs = r.files
    /\ today = 0
    /\ fileOp = NoCall
    /\ life = [calls |-> 0, faults |-> 0]
    /\ procs = [g \in Goroutines |-> [pc |-> "idle", n |-> 0]]
    /\ lock = "free"
    /\ regs = EmptyMap

\* Goroutine g calls LogWrite(rec) or Rotate().
CallOn(g, op) ==
    /\ panicked = "none"
    /\ procs[g].pc = "idle"
    /\ procs[g].n < MaxOps
    /\ procs' = [procs EXCEPT ![g] = [pc |-> IF op = "Close" THEN "close" ELSE "lock",
                                      n |-> @.n + 1, op |-> op,
                                      rotated |-> FALSE, wrote |-> FALSE, used |-> "none"]]
    /\ UNCHANGED <<lock, regs, fileVars, panicked, loggerVars, chanVars, fmtVars, sockVars>>

LogWriteCall(g) == CallOn(g, "LogWrite")
RotateCall(g) == CallOn(g, "Rotate")
\* Close takes no lock.
CloseCall(g) == CallOn(g, "Close")

\* `flw.lock.Lock()`
Lock(g) ==
    /\ panicked = "none"
    /\ procs[g].pc = "lock"
    /\ Lockable(lock)
    /\ lock' = g
    /\ procs' = [procs EXCEPT ![g].pc = IF procs[g].op = "Rotate" THEN "rotate" ELSE "trigger"]
    /\ UNCHANGED <<regs, fileVars, panicked, loggerVars, chanVars, fmtVars, sockVars>>

\* LogWrite: `if flw.Good() { if <a trigger fires> { flw.intRotate() } }`
LogWriteTrigger(g, openOk) ==
    /\ panicked = "none"
    /\ procs[g].pc = "trigger"
    /\ LET trig == FileGood(flw) /\ RotateTriggered(flw, Day(today))
           r == intRotate(flw, fs, openOk, Day(today))
       IN  /\ openOk \/ trig
           /\ flw' = IF trig THEN r.f ELSE flw
           /\ fs' = IF trig THEN r.files ELSE fs
           /\ procs' = [procs EXCEPT ![g].pc = "good", ![g].rotated = trig]
    /\ UNCHANGED <<lock, regs, today, fileOp, life, panicked, loggerVars, chanVars, fmtVars, sockVars>>

\* LogWrite: `if !flw.Good() { return -1, ... }`
LogWriteGood(g) ==
    /\ panicked = "none"
    /\ procs[g].pc = "good"
    /\ procs' = [procs EXCEPT ![g].pc = IF FileGood(flw) THEN "write" ELSE "unlock"]
    /\ UNCHANGED <<lock, regs, fileVars, panicked, loggerVars, chanVars, fmtVars, sockVars>>

\* LogWrite: `n, err = flw.file.Write(...)`; a Write on a closed file fails.
LogWriteWrite(g, writeOk) ==
    /\ panicked = "none"
    /\ procs[g].pc = "write"
    /\ LET ok == flw.file = "open" /\ writeOk
       IN  /\ fs' = IF ok THEN AppendTo(fs, Record(flw.kind, Ordinal(fs))) ELSE fs
           /\ procs' = [procs EXCEPT ![g].pc = "count", ![g].wrote = ok,
                                     ![g].used = flw.file]
    /\ UNCHANGED <<lock, regs, flw, today, fileOp, life, panicked, loggerVars, chanVars, fmtVars, sockVars>>

\* LogWrite: `if err == nil { flw.maxlines_curlines++; flw.maxsize_cursize += n }`
LogWriteCount(g) ==
    /\ panicked = "none"
    /\ procs[g].pc = "count"
    /\ flw' = IF procs[g].wrote
              THEN [flw EXCEPT !.curlines = @ + 1, !.cursize = @ + RecSize] ELSE flw
    /\ procs' = [procs EXCEPT ![g].pc = "unlock"]
    /\ UNCHANGED <<lock, regs, fs, today, fileOp, life, panicked, loggerVars, chanVars, fmtVars, sockVars>>

\* Rotate: `flw.intRotate()`
RotateRotate(g, openOk) ==
    /\ panicked = "none"
    /\ procs[g].pc = "rotate"
    /\ LET r == intRotate(flw, fs, openOk, Day(today))
       IN  /\ flw' = r.f
           /\ fs' = r.files
    /\ procs' = [procs EXCEPT ![g].pc = "unlock", ![g].rotated = TRUE, ![g].used = flw.file]
    /\ UNCHANGED <<lock, regs, today, fileOp, life, panicked, loggerVars, chanVars, fmtVars, sockVars>>

\* Close: `flw.file.Close()` (the XML writer first writes </log> to a file
\* that is not nil).  The handle is closed and still held: "closed".
CloseFile(g) ==
    /\ panicked = "none"
    /\ procs[g].pc = "close"
    /\ fs' = IF flw.kind = "xml" /\ flw.file = "open" THEN AppendTo(fs, CloseTag) ELSE fs
    /\ flw' = [flw EXCEPT !.file = IF @ = "nil" THEN "nil" ELSE "closed"]
    /\ procs' = [procs EXCEPT ![g].pc = "drop"]
    /\ UNCHANGED <<lock, regs, today, fileOp, life, panicked, loggerVars, chanVars, fmtVars, sockVars>>

\* Close: `flw.file = nil`
CloseDrop(g) ==
    /\ panicked = "none"
    /\ procs[g].pc = "drop"
    /\ flw' = [flw EXCEPT !.file = "nil"]
    /\ procs' = [procs EXCEPT ![g].pc = "idle"]
    /\ UNCHANGED <<lock, regs, fs, today, fileOp, life, panicked, loggerVars, chanVars, fmtVars, sockVars>>

\* `defer flw.lock.Unlock()`
Unlock(g) ==
    /\ panicked = "none"
    /\ procs[g].pc = "unlock"
    /\ lock' = "free"
    /\ procs' = [procs EXCEPT ![g].pc = "idle"]
    /\ UNCHANGED <<regs, fileVars, panicked, loggerVars, chanVars, fmtVars, sockVars>>

LockNext ==
    \/ \E g \in Goroutines : LogWriteCall(g)
    \/ \E g \in Goroutines : RotateCall(g)
    \/ \E g \in Goroutines : Lock(g)
    \/ \E g \in Goroutines, openOk \in BOOLEAN : LogWriteTrigger(g, openOk)
    \/ \E g \in Goroutines : LogWriteGood(g)
    \/ \E g \in Goroutines, writeOk \in BOOLEAN : LogWriteWrite(g, writeOk)
    \/ \E g \in Goroutines : LogWriteCount(g)
    \/ \E g \in Goroutines, openOk \in BOOLEAN : RotateRotate(g, openOk)
    \/ \E g \in Goroutines : Unlock(g)
    \/ \E g \in Goroutines : CloseCall(g)
    \/ \E g \in Goroutines : CloseFile(g)
    \/ \E g \in Goroutines : CloseDrop(g)

LockStart == LockInit /\ LoggerIdle /\ ChanIdle /\ FormatIdle /\ panicked = "none" /\ SockIdle

SpecLock == LockStart /\ [][LockNext]_vars

\* Goroutine g is between the Lock and the Unlock of its call.
InCall(g) == procs[g].pc \in {"trigger", "good", "write", "count", "rotate", "unlock"}

\* C17: no two goroutines are inside LogWrite or Rotate of the writer at
\* once: whoever is between the trigger check and the return holds the lock,
\* and any other caller is still before its Lock.
C17_OneCallAtATime ==
    \A g \in Goroutines :
        InCall(g) => /\ lock = g
                     /\ \A h \in Goroutines \ {g} : ~InCall(h)

\* One goroutine's LogWrite has rotated and is about to write while the
\* other's Rotate waits for the lock.
C17_Witness ==
    /\ procs["g1"].pc = "write" /\ procs["g1"].rotated
    /\ procs["g2"].pc = "lock" /\ procs["g2"].op = "Rotate"
    /\ lock = "g1"

(***************************************************************************)
(* The file writer's handle and its backups                                *)
(***************************************************************************)

\* C18: in every state of a FileLogWriter, Good() is true exactly when the
\* writer holds an open file.
C18_GoodIffOpenHandle ==
    flw.kind = "file" => (FileGood(flw) <=> flw.file = "open")

\* A step in which intRotate ran on a writer that keeps old files while the
\* target was there: in the constructor, in Rotate, in a LogWrite that rotates.
Archiving ==
    /\ Made \/ Called("Rotate") \/ Called("LogWrite")
    /\ fileOp'.rotated
    /\ flw'.rotate
    /\ Exists(fs, 0)

\* C19: the number a rotation moves the target to is the first of 1..999
\* with no file; with .001 to .998 there and .999 not, it is 999.
C19_FirstUnusedOfWholeRange ==
    [][Archiving /\ LowestUnused(fs) # 0 =>
           /\ fileOp'.renamed = LowestUnused(fs)
           /\ (\A n \in 1..(BackupLimit - 1) : Exists(fs, n)) => fileOp'.renamed = BackupLimit
      ]_vars

\* The lines the step's own LogWrite added to the target.
Written == IF fileOp'.op = "LogWrite" /\ fileOp'.err = "none" THEN 1 ELSE 0

C22_RotatesOnAnotherDate ==
    [][Called("LogWrite") /\ FileGood(flw) /\ flw.daily
           /\ flw.maxlines = 0 /\ flw.maxsize = 0 =>
           (fileOp'.rotated <=> today # life.date)
      ]_vars

RECURSIVE Unclosed(_, _, _)
Unclosed(c, i, d) ==
    IF i > Len(c) THEN d
    ELSE IF c[i] = OpenTag THEN (IF d = 0 THEN Unclosed(c, i + 1, 1) ELSE -1)
    ELSE IF c[i] = CloseTag THEN (IF d = 1 THEN Unclosed(c, i + 1, 0) ELSE -1)
    ELSE IF c[i] = Old THEN (IF i = 1 THEN Unclosed(c, i + 1, d) ELSE -1)
    ELSE IF d = 1 THEN Unclosed(c, i + 1, d) ELSE -1

\* The <log> elements of a file.
Roots(c) == Cardinality({i \in 1..Len(c) : c[i] = OpenTag})

\* C24 as stated: every file an XML writer rotated away is one complete
\* document, with one root element, and the file it has open holds one
\* unclosed root.
C24_RotatedFilesOneRoot ==
    flw.kind = "xml" =>
        /\ \A n \in DOMAIN fs.cur \ {0} :
               /\ Unclosed(Content(fs, n), 1, 0) = 0
               /\ Content(fs, n) = <<Old>> \/ (Roots(Content(fs, n)) = 1 /\ Content(fs, n)[1] = OpenTag)
        /\ flw.file = "open" => Unclosed(Content(fs, 0), 1, 0) = 1

\* C24 amended: in every file the elements follow one another, each closed
\* before the next opens, all closed but the last of a file that is open;
\* a rotation that moves away a file opened new leaves it one document, and
\* opens a new file with one unclosed root.
C24_ElementsClosedInTurn ==
    [][/\ flw'.kind = "xml" =>
              \A n \in DOMAIN fs'.cur :
                  Unclosed(Content(fs', n), 1, 0) = IF n = 0 /\ flw'.file = "open" THEN 1 ELSE 0
       /\ (/\ flw.kind = "xml" /\ (Called("Rotate") \/ Called("LogWrite"))
           /\ fileOp'.rotated /\ fileOp'.renamed # 0
           /\ flw.file = "open"
           /\ Roots(Content(fs, 0)) = 1 /\ Content(fs, 0)[1] = OpenTag) =>
              /\ Content(fs', fileOp'.renamed) = Append(Content(fs, 0), CloseTag)
              /\ Roots(Content(fs', fileOp'.renamed)) = 1
              /\ fileOp'.opened =>
                     /\ Content(fs', 0)[1] = OpenTag
                     /\ Roots(Content(fs', 0)) = 1
      ]_vars

\* A file with a record was rotated away as one document, and the file
\* open now holds a record in its unclosed root.
C24_Witness ==
    /\ flw.kind = "xml" /\ flw.file = "open"
    /\ 1 \in DOMAIN fs.cur /\ fs.cur[1] = XMLDocument(1)
    /\ Content(fs, 0) = <<OpenTag, Record("xml", life.okWrites)>>

(***************************************************************************)
(* The end of a rendered line                                              *)
(***************************************************************************)

\* C25: the string FormatLogRecord returns ends with a newline, whatever
\* the template (the empty one, one that ends in %) and the record.
C25_EndsWithNewline ==
    fmtCall.op = "FormatLogRecord" /\ ~fmtCall.panic =>
        /\ Len(fmtCall.out) > 0
        /\ fmtCall.out[Len(fmtCall.out)] = "\n"

(***************************************************************************)
(* What one dispatching call does                                          *)
(***************************************************************************)

\* C26: when a LogWrite of a Log call returns an error, every writer that is
\* good and registered under a name whose threshold admits the level is
\* still written the record in that call, no name is written twice, and Log
\* returns nothing and does not panic.
C26_ErrorStaysLocal ==
    [][(/\ lastCall'.op = "Log"
        /\ \E i \in 1..Len(lastCall'.calls) : lastCall'.calls[i].result = "err") =>
           /\ \A n \in DOMAIN filterLevels :
                  lastCall'.level >= filterLevels[n] /\ Good(writerState[filterLogWriters[n]]) =>
                      \E i \in 1..Len(lastCall'.calls) :
                          /\ lastCall'.calls[i].writer = filterLogWriters[n]
                          /\ lastCall'.calls[i].rec = newLogRecord(lastCall'.level,
                                 lastCall'.source, lastCall'.message)
           /\ \A n \in DOMAIN filterLevels : CallsTo(lastCall', n) <= 1
           /\ lastCall'.ret = "none"
           /\ panicked' = "none"
      ]_vars

\* The first LogWrite of a Log returned an error and the second, to the
\* other writer, went through.
C26_Witness ==
    /\ lastCall.op = "Log" /\ Len(lastCall.calls) = 2
    /\ lastCall.calls[1].result = "err" /\ lastCall.calls[2].result = "ok"
    /\ lastCall.calls[1].writer # lastCall.calls[2].writer

\* C27: a dispatching call builds one LogRecord if a filter's threshold
\* admits the level and none if none does, and every LogWrite of the call
\* is given that record: the call's time, level, source and message.
C27_OneRecordPerCall ==
    [][lastCall'.op \in DispatchOps =>
           /\ lastCall'.built =
                  IF \E n \in DOMAIN filterLevels : lastCall'.level >= filterLevels[n]
                  THEN 1 ELSE 0
           /\ lastCall'.built = 0 => lastCall'.calls = <<>>
           /\ \A i \in 1..Len(lastCall'.calls) :
                  lastCall'.calls[i].rec =
                      [Level |-> lastCall'.level, Created |-> now,
                       Source |-> lastCall'.source, Message |-> lastCall'.message]
      ]_vars

\* An Info call built one record and gave it to two writers.
C27_Witness ==
    /\ lastCall.op = "Info" /\ lastCall.built = 1
    /\ Len(lastCall.calls) = 2
    /\ lastCall.calls[1].rec = lastCall.calls[2].rec
    /\ lastCall.calls[1].writer # lastCall.calls[2].writer

\* A filter's threshold admits the level of the call.
SomeAdmits(call, levels) == \E n \in DOMAIN levels : call.level >= levels[n]

\* C28 as stated: Logc and every leveled method run a closure they are
\* given only if a filter admits the level, and at most once.
C28_ClosureOnlyIfAdmitted ==
    [][lastCall'.op \in DispatchOps =>
           /\ lastCall'.closure <= 1
           /\ lastCall'.closure > 0 => SomeAdmits(lastCall', filterLevels)
      ]_vars

\* C28 amended: so do Logc, Finest, Fine, Debug, Trace and Info; Warn, Error
\* and Critical run the closure at most once too, but whether or not a
\* filter admits the level.
C28_ClosureOnlyIfAdmittedBelowWarn ==
    [][lastCall'.op \in DispatchOps =>
           /\ lastCall'.closure <= 1
           /\ lastCall'.closure > 0 /\ lastCall'.op \notin {"Warn", "Error", "Critical"} =>
                  SomeAdmits(lastCall', filterLevels)
           /\ lastCall'.closure > 0 /\ SomeAdmits(lastCall', filterLevels) =>
                  /\ lastCall'.calls # <<>>
                  /\ \A i \in 1..Len(lastCall'.calls) :
                         lastCall'.calls[i].rec.Message = lastCall'.message
      ]_vars

\* A Debug call ran the closure it was given once, a filter admitting
\* DEBUG, and wrote the closure's text to it.
C28_Witness ==
    /\ lastCall.op = "Debug" /\ lastCall.closure = 1 /\ lastCall.built = 1
    /\ Len(lastCall.calls) = 1
    /\ lastCall.calls[1].rec.Message = lastCall.message
    /\ \E n \in DOMAIN filterLevels : filterLevels[n] > DEBUG

\* C29: Warn, Error and Critical return an error, a filter admitting the
\* level or not, whose text is the message rendered from the arguments, the
\* text of the record they dispatch.
C29_ErrorCarriesMessage ==
    [][lastCall'.op \in {"Warn", "Error", "Critical"} =>
           /\ lastCall'.ret # "none"
           /\ lastCall'.ret = lastCall'.message
           /\ \A i \in 1..Len(lastCall'.calls) :
                  lastCall'.calls[i].rec.Message = lastCall'.ret
      ]_vars

(***************************************************************************)
(* The order of the FormatLogWriter's output                               *)
(***************************************************************************)

\* The records that entered the buffer, in the order they go out: written,
\* in the hands of run, buffered.
Enqueued == [i \in 1..Len(chanOut) |-> chanOut[i][2]] \o Held \o chan

\* C30: the records that entered the buffer, from whichever goroutine, are
\* written in the order they entered it, none twice and none left out: the
\* output and what waits behind it are the records in the order of their
\* sends, and, while the writer is not closed, every record in the buffer
\* is in the end written.
C30_WrittenInOrderOnce ==
    /\ [](/\ Enqueued = [i \in 1..Len(Enqueued) |-> i]
          /\ \A i \in 1..Len(chanOut) : chanOut[i] = Rendered(i)
          /\ panicked = "none" => Len(Enqueued) + Len(senders) = nsent)
    /\ [][chanOut' # chanOut =>
              /\ runPc.pc = "write"
              /\ chanOut' = Append(chanOut, Rendered(runPc.rec))]_vars
    /\ ([]~chanClosed => \A i \in 1..MaxSends :
                             (Len(Enqueued) >= i) ~> (Len(chanOut) >= i))

\* Records sent by both goroutines, one of them parked on the way, are all
\* written.
C30_Witness ==
    /\ ~chanClosed /\ nsent = MaxSends
    /\ Len(chanOut) = MaxSends
    /\ chanOp.op = "LogWrite" /\ chanOp.waits /\ chanOp.g = "g2"

(***************************************************************************)
(* SocketLogWriter (socklog.go, log4go/elog_socklog.go)                    *)
(***************************************************************************)
MaxSockOps == 3

\* The two definitions of the writer in the source.
SockBuilds == {"socklog", "elog"}
Protos == {"tcp", "tcp4", "udp", "unix"}
SockRecords == {<<"a">>, <<"b", "c">>}
\* What may go wrong in a LogWrite: Marshal fails, the Write of the record
\* fails, the Write of the delimiter fails.
SockFaults == {"none", "marshal", "write", "eom"}

\* const EOM = "\n"
EOM == <<"\n">>

\* json.Marshal(rec): the bytes of the record's JSON text.
Marshal(rec) == <<"{">> \o rec \o <<"}">>

\* slw.sock.RemoteAddr().Network(): the network of the address dialed.
Network(proto) == IF proto \in {"tcp", "tcp4"} THEN "tcp" ELSE proto

\* func (slw *SocketLogWriter) Good() bool
SockGood(w) == w.sock # Nil

\* NewSocketLogWriter(proto, hostport): net.Dial gives a connection or
\* (nil, err); either way `slw.sock = s` and the writer is returned.
NewSocketLogWriter(build, proto, dialed) ==
    /\ slw = [build |-> build, proto |-> proto, sock |-> IF dialed THEN "conn" ELSE Nil]
    /\ conn = [state |-> IF dialed THEN "open" ELSE "none", wire |-> <<>>]
    /\ sockOp = [op |-> "New", n |-> 0, dialed |-> dialed]

SockInit ==
    \E build \in SockBuilds, proto \in Protos, dialed \in BOOLEAN :
        NewSocketLogWriter(build, proto, dialed)

\* What one LogWrite sends and returns.  In elog_socklog.go the record is
\* followed by EOM unless its Write failed; in socklog.go the result of the
\* record's Write is the result of LogWrite.
SocketLogWriteResult(w, rec, fault, k) ==
    LET js == Marshal(rec) IN
    IF ~SockGood(w) THEN
        [sent |-> <<>>, ret |-> -1, err |-> "Socket was not opened successfully"]
    ELSE IF fault = "marshal" THEN [sent |-> <<>>, ret |-> 0, err |-> "marshal"]
    ELSE IF fault = "write" THEN [sent |-> SubSeq(js, 1, k), ret |-> k, err |-> "write"]
    ELSE IF w.build = "socklog" THEN [sent |-> js, ret |-> Len(js), err |-> "none"]
    ELSE IF fault = "eom" THEN [sent |-> js, ret |-> Len(js), err |-> "write"]
    ELSE [sent |-> js \o EOM, ret |-> Len(js) + Len(EOM), err |-> "none"]

\* func (slw *SocketLogWriter) LogWrite(rec *LogRecord) (int, os.Error)
SocketLogWrite(rec, fault, k) ==
    /\ panicked = "none"
    /\ sockOp.n < MaxSockOps
    /\ LET r == SocketLogWriteResult(slw, rec, fault, k)
       IN  /\ conn' = [conn EXCEPT !.wire = @ \o r.sent]
           /\ sockOp' = [op |-> "LogWrite", n |-> sockOp.n + 1, rec |-> rec,
                         good |-> SockGood(slw), fault |-> fault,
                         sent |-> r.sent, ret |-> r.ret, err |-> r.err]
    /\ UNCHANGED <<slw, panicked, loggerVars, fileVars, chanVars, fmtVars, stepVars>>

\* Whether Close calls slw.sock.Close(): socklog.go does for a connection
\* whose network is "tcp"; elog_socklog.go always does.
SockCloses_any(w) == SockGood(w)
SockCloses(w) ==
    IF w.build = "socklog" THEN SockGood(w) /\ Network(w.proto) = "tcp" ELSE TRUE

\* func (slw *SocketLogWriter) Close()
SocketClose ==
    /\ panicked = "none"
    /\ sockOp.n < MaxSockOps
    /\ IF SockCloses(slw) /\ ~SockGood(slw)
       THEN \* slw.sock.Close() on a nil interface
            /\ panicked' = "nil dereference"
            /\ UNCHANGED <<slw, conn>>
       ELSE /\ slw' = [slw EXCEPT !.sock = Nil]
            /\ conn' = [conn EXCEPT !.state = IF SockCloses(slw) THEN "closed" ELSE @]
            /\ UNCHANGED panicked
    /\ sockOp' = [op |-> "Close", n |-> sockOp.n + 1, good |-> SockGood(slw),
                  closes |-> SockCloses(slw)]
    /\ UNCHANGED <<loggerVars, fileVars, chanVars, fmtVars, stepVars>>

SockNext ==
    \/ \E rec \in SockRecords, fault \in SockFaults, k \in 0..1 : SocketLogWrite(rec, fault, k)
    \/ SocketClose

SockStart == SockInit /\ LoggerIdle /\ FileIdle /\ ChanIdle /\ FormatIdle /\ panicked = "none" /\ StepIdle

SpecSocket == SockStart /\ [][SockNext]_vars

\* The step is a LogWrite on the socket writer.
SockWrote == sockOp'.n = sockOp.n + 1 /\ sockOp'.op = "LogWrite"
\* The step is a Close of the socket writer.
SockClosed == sockOp'.n = sockOp.n + 1 /\ sockOp'.op = "Close"

\* C31: each successful LogWrite of a socket writer sends the serialized
\* record followed at once by the end-of-message delimiter and returns the
\* number of bytes of both; if sending the record fails no delimiter is sent
\* and the error is returned.
C31_RecordThenDelimiter ==
    [][SockWrote /\ sockOp'.good =>
        /\ sockOp'.err = "none" =>
              /\ conn'.wire = conn.wire \o Marshal(sockOp'.rec) \o EOM
              /\ sockOp'.ret = Len(Marshal(sockOp'.rec)) + Len(EOM)
        /\ sockOp'.fault = "write" =>
              /\ sockOp'.err # "none"
              /\ \A i \in Len(conn.wire) + 1 .. Len(conn'.wire) : <<conn'.wire[i]>> # EOM]_vars

\* C35: a socket writer of socklog.go is good iff it holds a connection: one
\* whose dial failed is not good, LogWrite on a writer that is not good
\* returns -1 and an error and sends nothing, after Close the writer is not
\* good, and Close closes the connection exactly when the writer holds one
\* and its network is tcp.
C35_GoodIffConnected ==
    [][slw.build = "socklog" =>
        /\ SockGood(slw) <=> slw.sock = "conn"
        /\ sockOp.op = "New" /\ ~sockOp.dialed => ~SockGood(slw)
        /\ SockWrote /\ slw.sock = Nil =>
              sockOp'.ret = -1 /\ sockOp'.err # "none" /\ conn'.wire = conn.wire
        /\ SockClosed =>
              /\ ~SockGood(slw')
              /\ panicked' = "none"
              /\ (conn'.state = "closed" /\ conn.state = "open")
                   <=> (slw.sock = "conn" /\ Network(slw.proto) = "tcp")
              /\ conn.state # "open" => conn'.state = conn.state]_vars

\* A udp writer is closed without closing its connection, and a write after
\* that is refused.
C35_Witness ==
    /\ slw.build = "socklog" /\ slw.proto = "udp" /\ slw.sock = Nil
    /\ conn.state = "open" /\ Len(conn.wire) > 0
    /\ sockOp.op = "LogWrite" /\ sockOp.ret = -1

\* C32: every AddFilter call, accepted or refused, returns the Logger it was
\* called on, so that a call chained on its result is a call on that Logger.
C32_ReturnsSelf ==
    [][/\ lastCall'.op = "AddFilter" /\ lastCall' # lastCall => lastCall'.ret = Self
       /\ lastCall'.op # "AddFilter on nil"
       /\ panicked' # "nil dereference"]_vars

\* C39: a Log call whose level lies outside FINEST..CRITICAL and is admitted
\* by some filter's threshold dispatches and renders without failure: no
\* writer indexes the level mnemonic table out of range.
C39_AnyLevelRenders ==
    (/\ lastCall.op = "Log"
     /\ lastCall.level \notin FINEST..CRITICAL
     /\ lastCall.built = 1)
        => panicked # "index out of range"

(***************************************************************************)
(* The cache of FormatLogRecord: when the time strings are made            *)
(***************************************************************************)

\* The second of a call's record.
SecondOf(call) == call.rec.Created \div TicksPerSecond

\* The step is a FormatLogRecord call that follows one for the same second,
\* both with a template that is not empty.
SameSecondAgain ==
    /\ fmtCall.op = "FormatLogRecord" /\ fmtCall'.n = fmtCall.n + 1
    /\ fmtCall.format # <<>> /\ fmtCall'.format # <<>>
    /\ SecondOf(fmtCall') = SecondOf(fmtCall)

\* C33: FormatLogRecord converts the time and derives the date and time
\* strings only when the record's second is not that of the cached values:
\* of two calls in a row for the same second, the second one converts no
\* time and makes no string.
C33_DerivedOncePerSecond ==
    [][SameSecondAgain /\ ~fmtCall.panic => fmtCall'.conv = 0 /\ fmtCall'.made = 0]_vars

(***************************************************************************)
(* FormatLogRecord on two goroutines.  pattlog.go holds formatCache's      *)
(* Mutex from before `out.Truncate(0)` to the return and writes into the   *)
(* one formatCache.buf; the RWMutex definition takes the write lock where  *)
(* the second is not LastUpdateSeconds and the read lock otherwise, and    *)
(* writes into a buffer of its own; the copy-on-update definition takes no *)
(* lock, copies *formatCache and works on the copy.  `lock` is the writer  *)
(* holding the lock and the set of readers holding it.                     *)
(***************************************************************************)
MaxRenders == 2
RenderFormats == {<<>>, <<"%", "T">>, <<"%", "M">>}
RenderRecords ==
    {[Level |-> INFO, Created |-> sec * TicksPerSecond, Source |-> "src", Message |-> msg] :
        sec \in {0, 60}, msg \in {"x", "y"}}

\* formatCache with its field buf, and with the goroutine that stored it
\* (`formatCache = updated`), "none" for the one the package starts with.
WithBuf(cache, buf) ==
    [f \in DOMAIN cache \cup {"buf", "by"} |->
        IF f = "buf" THEN buf ELSE IF f = "by" THEN "none" ELSE cache[f]]

\* What `cache := *formatCache` may read in goroutine g.  The pointer is
\* stored and read without synchronisation: a struct another goroutine
\* stored may be seen with its strings not yet written.
Seen(g, cache) ==
    {cache} \cup
    IF cache.by \in {g, "none"} THEN {}
    ELSE {[cache EXCEPT !.T = <<>>, !.t = <<>>, !.D = <<>>, !.d = <<>>]}

RenderInit ==
    /\ formatBuild \in Builds
    /\ formatCache = WithBuf(ZeroCache, <<>>)
    /\ fmtCall = [op |-> "none", n |-> 0]
    /\ procs = [g \in Goroutines |-> [pc |-> "idle", n |-> 0]]
    /\ lock = [w |-> "free", r |-> {}]
    /\ regs = EmptyMap

\* Goroutine g calls FormatLogRecord(format, rec); with an empty template
\* pattlog.go and the copy-on-update definition return "" at once.
RenderCall(g, format, rec) ==
    /\ panicked = "none"
    /\ procs[g].pc = "idle"
    /\ procs[g].n < MaxRenders
    /\ procs' = [procs EXCEPT ![g] =
                   [pc |-> IF formatBuild # "rwmutex" /\ Len(format) = 0
                           THEN "return" ELSE "enter",
                    n |-> @.n + 1, format |-> format, rec |-> rec,
                    cache |-> <<>>, out |-> <<>>, subs |-> <<>>]]
    /\ UNCHANGED <<lock, regs, panicked, loggerVars, fileVars, chanVars, fmtVars, sockVars>>

\* Whether a goroutine entering with the lock in state l has to wait.
\* formatCache.Lock(); `if secs != formatCache.LastUpdateSeconds { Lock() }
\* else { RLock() }`; no lock in the copy-on-update definition.
Waits(build, l, write) ==
    CASE build = "mutex" -> l.w # "free"
      [] build = "rwmutex" -> l.w # "free" \/ (write /\ l.r # {})
      [] build = "copy" -> FALSE

\* g takes the lock of its build, or copies *formatCache.
RenderEnter(g) ==
    /\ panicked = "none"
    /\ procs[g].pc = "enter"
    /\ LET secs == procs[g].rec.Created \div TicksPerSecond
           write == formatBuild = "mutex" \/ secs # formatCache.LastUpdateSeconds
       IN  /\ ~Waits(formatBuild, lock, write)
           /\ lock' = IF formatBuild = "copy" THEN lock
                      ELSE IF write THEN [lock EXCEPT !.w = g]
                      ELSE [lock EXCEPT !.r = @ \cup {g}]
    /\ \E seen \in Seen(g, formatCache) :
          procs' = [procs EXCEPT
                      ![g].pc = IF formatBuild = "mutex" THEN "truncate" ELSE "body",
                      ![g].cache = IF formatBuild = "copy" THEN <<seen>> ELSE <<>>]
    /\ UNCHANGED <<regs, panicked, loggerVars, fileVars, chanVars, fmtVars, sockVars>>

\* pattlog.go: `out := formatCache.buf; out.Truncate(0)`
RenderTruncate(g) ==
    /\ panicked = "none"
    /\ procs[g].pc = "truncate"
    /\ formatCache' = [formatCache EXCEPT !.buf = <<>>]
    /\ procs' = [procs EXCEPT ![g].pc = "body"]
    /\ UNCHANGED <<formatBuild, fmtCall, lock, regs, panicked, loggerVars, fileVars,
                   chanVars, sockVars>>

\* The cache is brought up to the record's second and the pieces are written
\* out: into formatCache.buf in pattlog.go, into g's own buffer otherwise.
\* The copy-on-update definition stores the cache it made anew.
RenderBody(g) ==
    /\ panicked = "none"
    /\ procs[g].pc = "body"
    /\ LET mine == IF formatBuild = "copy" THEN procs[g].cache[1] ELSE formatCache
           r == FormatLogRecordResult(formatBuild, mine, procs[g].format, procs[g].rec)
       IN  IF r.panic
           THEN /\ panicked' = "nil pointer dereference"
                /\ UNCHANGED <<formatCache, procs>>
           ELSE /\ formatCache' =
                       CASE formatBuild = "mutex" ->
                              [r.cache EXCEPT !.buf = formatCache.buf \o r.out]
                         [] formatBuild = "rwmutex" -> r.cache
                         [] formatBuild = "copy" ->
                              IF r.cache # mine THEN [r.cache EXCEPT !.by = g]
                              ELSE formatCache
                /\ procs' = [procs EXCEPT ![g].pc = "return", ![g].out = r.out,
                                          ![g].subs = r.subs]
                /\ UNCHANGED panicked
    /\ UNCHANGED <<formatBuild, fmtCall, lock, regs, loggerVars, fileVars, chanVars, sockVars>>

\* `return out.String()`, then the deferred Unlock or RUnlock.
RenderReturn(g) ==
    /\ panicked = "none"
    /\ procs[g].pc = "return"
    /\ fmtCall' = [op |-> "FormatLogRecord", n |-> fmtCall.n + 1, g |-> g,
                   format |-> procs[g].format, rec |-> procs[g].rec,
                   out |-> IF formatBuild = "mutex" /\ Len(procs[g].format) > 0
                           THEN formatCache.buf ELSE procs[g].out,
                   subs |-> procs[g].subs, panic |-> FALSE]
    /\ lock' = [w |-> IF lock.w = g THEN "free" ELSE lock.w, r |-> lock.r \ {g}]
    /\ procs' = [procs EXCEPT ![g] = [pc |-> "idle", n |-> @.n]]
    /\ UNCHANGED <<formatBuild, formatCache, regs, panicked, loggerVars, fileVars,
                   chanVars, sockVars>>

RenderNext ==
    \/ \E g \in Goroutines, format \in RenderFormats, rec \in RenderRecords :
           RenderCall(g, format, rec)
    \/ \E g \in Goroutines : RenderEnter(g)
    \/ \E g \in Goroutines : RenderTruncate(g)
    \/ \E g \in Goroutines : RenderBody(g)
    \/ \E g \in Goroutines : RenderReturn(g)

RenderStart ==
    RenderInit /\ LoggerIdle /\ FileIdle /\ ChanIdle /\ panicked = "none" /\ SockIdle

SpecRender == RenderStart /\ [][RenderNext]_vars

\* C34: FormatLogRecord calls that run at the same time each return the
\* rendering of their own record and template: the text returned is the
\* template's with the call's own level, source, message and time strings,
\* and each time string in it is the one of the second of the call's own
\* record.
C34_OwnRendering ==
    fmtCall.op = "FormatLogRecord" =>
        /\ \A i \in 1..Len(fmtCall.subs) :
               fmtCall.subs[i].text =
                   Sprintf(fmtCall.subs[i].code, TimeConversionFunction(SecondOf(fmtCall)))
        /\ Body(fmtCall.out) =
               Rendering(fmtCall.format, 1, fmtCall.rec, fmtCall.subs, 1, TRUE)
        /\ panicked = "none"

(***************************************************************************)
(* The counters of the file writer                                         *)
(***************************************************************************)

\* C36: curlines is the number of writes that succeeded since the last open
\* that succeeded and cursize the sum of the bytes they returned.  A write
\* that fails changes neither; an open that succeeds sets both to 0 and
\* opendate to the day, before the line of the same call is counted; an
\* open that fails leaves curlines, cursize and opendate as they were.
C36_CountersSinceOpen ==
    /\ [](flw.kind # "none" => flw.curlines = life.lines /\ flw.cursize = life.bytes)
    /\ [][Made \/ Called("Rotate") \/ Called("LogWrite") =>
            /\ fileOp'.err # "none" /\ ~fileOp'.opened =>
                   /\ flw'.curlines = flw.curlines
                   /\ flw'.cursize = flw.cursize
                   /\ flw'.opendate = flw.opendate
            /\ fileOp'.opened =>
                   /\ flw'.curlines = Written
                   /\ flw'.cursize = fileOp'.n
                   /\ flw'.opendate = Day(today)
            /\ fileOp'.rotated /\ ~fileOp'.opened =>
                   /\ flw'.curlines = flw.curlines
                   /\ flw'.cursize = flw.cursize
                   /\ flw'.opendate = flw.opendate]_vars

\* A write failed after one that succeeded: the counters are those of the one.
C36_Witness ==
    /\ flw.kind = "file" /\ flw.file = "open"
    /\ fileOp.op = "LogWrite" /\ fileOp.err = "write" /\ ~fileOp.rotated
    /\ flw.curlines = 1 /\ flw.cursize = RecSize

(***************************************************************************)
(* The lines a rotating writer has written                                 *)
(***************************************************************************)

\* What the backups of the numbers S hold, by ascending number.
RECURSIVE Backups(_, _)
Backups(files, S) ==
    IF S = {} THEN <<>>
    ELSE LET n == CHOOSE x \in S : \A y \in S : x <= y
         IN  files.cur[n] \o Backups(files, S \ {n})

\* The records in the backups, by ascending number, and then in the target.
RecordsKept(files) ==
    SelectSeq(Backups(files, DOMAIN files.cur \ {0})
                  \o (IF 0 \in DOMAIN files.cur THEN files.cur[0] ELSE <<>>),
              IsRecord)

\* C37: a FileLogWriter with rotate = true whose opens and writes have all
\* succeeded, each rotation finding a free number: the backups by ascending
\* number and then the target hold every line written, once each, in the
\* order they were written.
C37_EveryLineOnceInOrder ==
    flw.kind = "file" /\ flw.rotate /\ life.faults = 0 /\ LowestUnused(fs) # 0 =>
        RecordsKept(fs) = [k \in 1..life.okWrites |-> Record("file", k)]

\* Three lines were written and two rotations made: a line is in each of
\* two backups and in the target.
C37_Witness ==
    /\ flw.kind = "file" /\ flw.rotate /\ life.faults = 0
    /\ life.okWrites = MaxCalls /\ life.rotations = 2
    /\ Cardinality({n \in DOMAIN fs.cur : \E i \in 1..Len(fs.cur[n]) : IsRecord(fs.cur[n][i])}) = 3

(***************************************************************************)
(* Close while another goroutine is in LogWrite or Rotate                  *)
(***************************************************************************)

\* C38: a Close on another goroutine cannot make a LogWrite or a Rotate use
\* a handle that is nil or that Close has closed: a LogWrite that went past
\* `if !flw.Good()` writes on the open file, and the handle a Rotate closes
\* is not one Close closed before.  (`used` is the handle the call found at
\* its Write or at its intRotate; "stale" is one a failed reopen left.)
C38_CloseCannotPullHandle ==
    \A g \in Goroutines :
        procs[g].pc \in {"count", "unlock"} =>
            /\ procs[g].op = "LogWrite" /\ procs[g].used # "none" =>
                   procs[g].used \in {"open", "stale"}
            /\ procs[g].op = "Rotate" => procs[g].used # "closed"

====
